---- MODULE Spec2Model ----
(***************************************************************************)
(* Model of the analytics core of the feedback system: the Score Adjuster  *)
(* (server/5_course_analysis/calculate_statistical_rankings.py), the       *)
(* insight rule engines and the topic-modeling entry points.               *)
(*                                                                         *)
(* Numbers.  Scores are rationals [n, d] (d > 0, lowest terms) and the     *)
(* arithmetic of the source is carried out exactly on them.  The one       *)
(* irrational operation, np.sqrt, is kept symbolic (a value p + q*sqrt(t)) *)
(* and compared exactly.  Where the source's IEEE-754 rounding decides a   *)
(* statement (equality of two computed floats) the same expression is also *)
(* evaluated by the Fl* operators: binary floating point, round to nearest *)
(* even, with a significand of MantBits bits instead of 53.                *)
(***************************************************************************)
EXTENDS Integers, Sequences, FiniteSets, TLC

VARIABLES
    \* one call of the per-row transform (calculate_confidence_score)
    in_score,       \* row['Average_Sentiment_Score'] of the row being scored
    in_count,       \* row['Feedback_Count'] of that row
    in_count2,      \* Feedback_Count of a second row with the same score
    in_gm,          \* GLOBAL_MEAN the rows are scored against
    row_out,        \* the dict appended for the row, or NoRow
    row_out2,       \* the dict appended for the second row, or NoRow
    \* one run of calculate_statistical_rankings.py
    scores_df,          \* course_sentiment_scores.csv as loaded, in file order
    adjusted_scores,    \* the list the loop appends to
    adjusted_df_sorted, \* the sorted frame, <<>> until sorted
    spc,                \* where the script is: "loop", "sort", "done"
    rankings_csv,       \* course_rankings_statistically_adjusted.csv
    csv_history,        \* every content the rankings file has had
    \* the insight step for one topic of a run
    prog,           \* the program that runs, or the function that is applied
    t_idx,          \* topic_idx
    t_name,         \* the topic's name, as the tokens split() finds
    t_keywords,     \* the topic's keywords
    t_dist,         \* the topic's emotion distribution: label -> count
    ipc,            \* "topic" before the step, then "done" or "crashed"
    t_insights,     \* the list the step stored for the topic
    error,          \* the exception that ended the step, or "none"
    \* a topic-modelling run up to the fit
    entry,          \* "api" (get_topic_modeling_data) or "script" (run_lda_from_db.py)
    corpus_kind,    \* what the texts are like: "ok", "empty vocabulary", "degenerate"
    role,           \* request.user.role
    n_submitted,    \* feedbacks.count(): submitted feedbacks after the filters
    n_text,         \* those of them whose combined text is not blank
    rpc,            \* "start", "count", "collect", "fit", "end"
    feedback_data,  \* len(feedback_data)
    n_topics,       \* n_topics of the fit, 0 before
    fitted,         \* lda_model.fit_transform has run
    outcome,        \* how the run ended, or "none"
    \* the naming of the topics of one run
    n_prog,         \* "views" or "run_lda_from_db"
    n_K,            \* n_topics
    feature_names,  \* the terms the vectorizer kept
    n_idx,          \* topic_idx of the naming loop
    used_names,     \* views: the dict base name -> times seen
    topic_names,    \* views: topic_name_map; script: topic_names_list, once built
    topics_dict,    \* script: the dict name -> top words, in insertion order
    dominant_counts,     \* per topic index, label -> number of its documents
    topic_emotion_dist,  \* views: the dict topic name -> label counts
    emotion_dists,       \* per topic index, the emotion_dist handed on
    npc,            \* "naming", "listed", "named", "crossed", "crashed"
    \* the assignment of the documents to topics
    lda_output,         \* per document, its row of topic probabilities
    dominant_topic,     \* per document, the column all_feedback['dominant_topic']
    topic_probability,  \* per document, the column all_feedback['topic_probability']
    apc,                \* "fitted", "argmax", "done"
    \* two runs of the offline insight step on the same topic
    g_keywords,     \* the topic's keywords
    g_dist,         \* the topic's emotion distribution
    gpc,            \* per run: "load", "batch", "fallback", "done", "hung"
    g_failed,       \* per run: what the generator raised: "none", "load", "insight"
    g_insights,     \* per run: the topic's insights so far
    g_method,       \* per run: generation_method of the saved report
    \* two background runs of run_topic_modeling_task.py
    db_count,       \* submitted feedbacks in the database
    insights_file,  \* results/topic_modeling/lda_insights.json: "absent", "old", "recent"
    cpc,            \* per run: where it is
    snapshot,       \* per run: the number of feedbacks it loaded, 0 before
    files,          \* results/topic_modeling: file name -> snapshot it was made from, 0 if absent
    \* submit_feedback requests, the admin's trigger and the tasks they start
    db_submitted,       \* Feedback.objects.filter(status='submitted').count()
    rq,                 \* per request: "idle", "created", "responded"
    made,               \* per request: the count its Feedback.objects.create made, 0 before
    total_feedbacks,    \* per request: total_feedbacks as it read it, 0 before
    admin_rq,           \* trigger_topic_modeling: "idle", then "400" or "started"
    task,               \* per task: "none", "started", "skipped", "lda", "error"
    lda_insights_json,  \* results/topic_modeling/lda_insights.json: "absent", "recent", "old"
    written_at_count,   \* the submitted feedbacks there were when that file was written
    launched,           \* the tasks that launched the LDA script in the last 10 minutes
    \* one call of InsightGenerator.generate_insights_batch
    topics_data,        \* the argument: per topic its name, keywords and emotion counts
    all_insights,       \* the list the loop appends to
    bpc,                \* "loop", "returned", "hung"
    \* the generator singleton of one process
    cuda_available,     \* torch.cuda.is_available()
    n_objects,          \* how many objects super().__new__ has made
    cls_instance,       \* InsightGenerator._instance: the object's number, 0 for None
    self_tokenizer,     \* _tokenizer of that object: "None" or "loaded"
    self_model,         \* _model of that object: "None", "on cpu" or "on cuda"
    pad_token_set,      \* line 42 has run on the tokenizer in place
    _insight_generator, \* the module's global: the object's number, 0 for None
    calls               \* per call so far: the function, what its load did, what it returned

rowVars == <<in_score, in_count, in_count2, in_gm, row_out, row_out2>>

rankVars == <<scores_df, adjusted_scores, adjusted_df_sorted, spc,
              rankings_csv, csv_history>>

insightVars == <<prog, t_idx, t_name, t_keywords, t_dist, ipc, t_insights, error>>

runVars == <<entry, corpus_kind, role, n_submitted, n_text, rpc, feedback_data, n_topics,
             fitted, outcome>>

namesVars == <<n_prog, n_K, feature_names, n_idx, used_names, topic_names, topics_dict,
               dominant_counts, topic_emotion_dist, emotion_dists, npc>>

\* the variables of the later parts of the pipeline
assignVars == <<lda_output, dominant_topic, topic_probability, apc>>

genVars == <<g_keywords, g_dist, gpc, g_failed, g_insights, g_method>>

concVars == <<db_count, insights_file, cpc, snapshot, files>>

\* the triggers of the topic modelling and what the later sections add
trigVars == <<db_submitted, rq, made, total_feedbacks, admin_rq, task, lda_insights_json,
              written_at_count, launched>>

batchVars == <<topics_data, all_insights, bpc>>

singleVars == <<cuda_available, n_objects, cls_instance, self_tokenizer, self_model,
                pad_token_set, _insight_generator, calls>>

lateVars == <<trigVars, batchVars, singleVars>>

pipeVars == <<namesVars, assignVars, genVars, concVars, lateVars>>

vars == <<rowVars, rankVars, insightVars, runVars, pipeVars>>

(***************************************************************************)
(* Exact rational arithmetic                                               *)
(***************************************************************************)
Abs(x) == IF x < 0 THEN -x ELSE x

Sign(x) == IF x < 0 THEN -1 ELSE IF x > 0 THEN 1 ELSE 0

RECURSIVE GCD(_, _)
GCD(a, b) == IF b = 0 THEN a ELSE GCD(b, a % b)

Rat(num, den) ==
    LET s == IF den < 0 THEN -1 ELSE 1
        g == GCD(Abs(num), Abs(den))
    IN  [n |-> (s * num) \div g, d |-> (s * den) \div g]

RInt(k) == [n |-> k, d |-> 1]

RAdd(x, y) == Rat(x.n * y.d + y.n * x.d, x.d * y.d)

RSub(x, y) == Rat(x.n * y.d - y.n * x.d, x.d * y.d)

RMul(x, y) == Rat(x.n * y.n, x.d * y.d)

RDiv(x, y) == Rat(x.n * y.d, x.d * y.n)

RAbs(x) == [n |-> Abs(x.n), d |-> x.d]

RSign(x) == Sign(x.n)

\* p/q compared with u/v (all positive) by continued fractions: no products.
RECURSIVE CmpFrac(_, _, _, _)
CmpFrac(p, q, u, v) ==
    LET x == p \div q
        y == u \div v
        r1 == p % q
        r2 == u % v
    IN  IF x # y THEN Sign(x - y)
        ELSE IF r1 = 0 /\ r2 = 0 THEN 0
        ELSE IF r1 = 0 THEN -1
        ELSE IF r2 = 0 THEN 1
        ELSE CmpFrac(v, r2, q, r1)

\* -1, 0, 1 as x < y, x = y, x > y
RCmp(x, y) ==
    IF RSign(x) # RSign(y) THEN Sign(RSign(x) - RSign(y))
    ELSE IF RSign(x) = 0 THEN 0
    ELSE RSign(x) * CmpFrac(Abs(x.n), x.d, Abs(y.n), y.d)

RLe(x, y) == RCmp(x, y) <= 0

RLt(x, y) == RCmp(x, y) < 0

RMin(x, y) == IF RLe(x, y) THEN x ELSE y

(***************************************************************************)
(* np.sqrt, kept symbolic.  A value [p, q, t] stands for p + q * sqrt(t),  *)
(* p, q, t rational, t >= 0.                                               *)
(***************************************************************************)
SqrtScale == 1000

RECURSIVE ISqrtIn(_, _, _)
ISqrtIn(n, lo, hi) ==
    IF lo = hi THEN lo
    ELSE LET mid == (lo + hi + 1) \div 2
         IN  IF mid * mid <= n THEN ISqrtIn(n, mid, hi) ELSE ISqrtIn(n, lo, mid - 1)

\* floor(sqrt(n)) for 0 <= n < 2^30
ISqrt(n) == ISqrtIn(n, 0, 32767)

IsSquare(n) == ISqrt(n) * ISqrt(n) = n

SqrtIsRational(t) == IsSquare(t.n) /\ IsSquare(t.d)

\* p + q * sqrt(t) with a rational sqrt(t), or q = 0, folded into p
SNorm(v) ==
    IF v.q.n = 0 THEN [p |-> v.p, q |-> RInt(0), t |-> RInt(0)]
    ELSE IF SqrtIsRational(v.t)
         THEN [p |-> RAdd(v.p, RMul(v.q, Rat(ISqrt(v.t.n), ISqrt(v.t.d)))),
               q |-> RInt(0), t |-> RInt(0)]
         ELSE v

SRootLo(t) == Rat(ISqrt((t.n * SqrtScale * SqrtScale) \div t.d), SqrtScale)

SRootHi(t) == Rat(ISqrt((t.n * SqrtScale * SqrtScale) \div t.d) + 1, SqrtScale)

\* rational bounds of a normalised value (strict when q # 0)
SLo(v) == RAdd(v.p, RMul(v.q, IF v.q.n >= 0 THEN SRootLo(v.t) ELSE SRootHi(v.t)))

SHi(v) == RAdd(v.p, RMul(v.q, IF v.q.n >= 0 THEN SRootHi(v.t) ELSE SRootLo(v.t)))

\* q1*sqrt(t1) = q2*sqrt(t2)
SameRadical(x, y) ==
    /\ RSign(x.q) = RSign(y.q)
    /\ RMul(RMul(x.q, x.q), x.t) = RMul(RMul(y.q, y.q), y.t)

\* -1, 0, 1 as a < b, a = b, a > b; 2 when SqrtScale is too coarse to tell
SCmp(a, b) ==
    LET x == SNorm(a)
        y == SNorm(b)
    IN  IF x.q.n = 0 /\ y.q.n = 0 THEN RCmp(x.p, y.p)
        ELSE IF x.p = y.p /\ SameRadical(x, y) THEN 0
        ELSE IF RLe(SHi(x), SLo(y)) THEN -1
        ELSE IF RLe(SHi(y), SLo(x)) THEN 1
        ELSE 2

(***************************************************************************)
(* IEEE-754 binary floating point, round to nearest even, MantBits bits of *)
(* significand, unbounded exponent.  A float is the rational it denotes.   *)
(***************************************************************************)
MantBits == 6

RECURSIVE Pow2(_)
Pow2(k) == IF k = 0 THEN 1 ELSE 2 * Pow2(k - 1)

RoundHalfEven(n, d) ==
    LET q == n \div d
        r == n % d
    IN  IF 2 * r < d THEN q
        ELSE IF 2 * r > d THEN q + 1
        ELSE IF q % 2 = 0 THEN q ELSE q + 1

RECURSIVE FlRoundPos(_, _)
FlRoundPos(n, d) ==
    IF n >= Pow2(MantBits) * d THEN RMul(RInt(2), FlRoundPos(n, 2 * d))
    ELSE IF n < Pow2(MantBits - 1) * d THEN RDiv(FlRoundPos(2 * n, d), RInt(2))
    ELSE RInt(RoundHalfEven(n, d))

FlRound(x) ==
    IF x.n = 0 THEN x
    ELSE RMul(RInt(Sign(x.n)), FlRoundPos(Abs(x.n), x.d))

FlAdd(x, y) == FlRound(RAdd(x, y))

FlMul(x, y) == FlRound(RMul(x, y))

FlDiv(x, y) == FlRound(RDiv(x, y))

\* the float nearest to the square root of n/d > 0
RECURSIVE FlSqrtPos(_, _)
FlSqrtPos(n, d) ==
    IF n >= Pow2(2 * MantBits) * d THEN RMul(RInt(2), FlSqrtPos(n, 4 * d))
    ELSE IF n < Pow2(2 * MantBits - 2) * d THEN RDiv(FlSqrtPos(4 * n, d), RInt(2))
    ELSE LET s == ISqrt(n \div d)
             odd == (2 * s + 1) * (2 * s + 1)
         IN  RInt(IF 4 * n > odd * d THEN s + 1
                  ELSE IF 4 * n = odd * d /\ s % 2 = 1 THEN s + 1
                  ELSE s)

FlSqrt(x) == IF x.n = 0 THEN x ELSE FlSqrtPos(x.n, x.d)

(***************************************************************************)
(* Score Adjuster: calculate_statistical_rankings.py                       *)
(***************************************************************************)
MINIMUM_FEEDBACK_THRESHOLD == 10

\* the prior's weight left out of the denominator
calculate_bayesian_average_by_count(score, count, global_mean, min_count) ==
    LET C == min_count
    IN  RDiv(RAdd(RMul(RInt(C), global_mean), RMul(RInt(count), score)),
             RInt(IF count = 0 THEN C ELSE count))

\* (C * m + n * x) / (C + n)
calculate_bayesian_average(score, count, global_mean, min_count) ==
    LET C == min_count
    IN  RDiv(RAdd(RMul(RInt(C), global_mean), RMul(RInt(count), score)),
             RInt(C + count))

\* the same expression as the interpreter evaluates it on floats
calculate_bayesian_average_fl(score, count, global_mean, min_count) ==
    LET C == min_count
    IN  FlDiv(FlAdd(FlMul(RInt(C), global_mean), FlMul(RInt(count), score)),
              RInt(C + count))

\* min(1.0, np.sqrt(count / MINIMUM_FEEDBACK_THRESHOLD)), as the square of
\* the weight: min(1, sqrt(x)) = sqrt(min(1, x))
size_weight_sq(count) ==
    RMin(RInt(1), Rat(count, MINIMUM_FEEDBACK_THRESHOLD))

\* The Wilson value the source also computes is returned and dropped by the
\* caller; global_count is not read.
calculate_confidence_score(score, count, global_mean, global_count) ==
    LET bayesian == calculate_bayesian_average(score, count, global_mean,
                                               MINIMUM_FEEDBACK_THRESHOLD)
        half == Rat(1, 2)
    IN  [confidence_adjusted |->
             [p |-> RMul(bayesian, half), q |-> RMul(score, half),
              t |-> size_weight_sq(count)],
         bayesian |-> bayesian,
         size_weight_sq |-> size_weight_sq(count)]

\* the Medium tier tested with > for >=
Reliability_Rating_strict(count) ==
    IF count >= MINIMUM_FEEDBACK_THRESHOLD THEN "High"
    ELSE IF count > 5 THEN "Medium" ELSE "Low"

\* bayesian * 0.5 + score * size_weight * 0.5 as the interpreter evaluates it
calculate_confidence_score_fl(score, count, global_mean, global_count) ==
    LET bayesian == calculate_bayesian_average_fl(score, count, global_mean,
                                                  MINIMUM_FEEDBACK_THRESHOLD)
        size_weight ==
            RMin(RInt(1), FlSqrt(FlDiv(RInt(count), RInt(MINIMUM_FEEDBACK_THRESHOLD))))
        half == Rat(1, 2)
    IN  FlAdd(FlMul(bayesian, half), FlMul(FlMul(score, size_weight), half))

Reliability_Rating(count) ==
    IF count >= MINIMUM_FEEDBACK_THRESHOLD THEN "High"
    ELSE IF count >= 5 THEN "Medium" ELSE "Low"

\* the dict appended to adjusted_scores for one row of scores_df
AdjustedRow(row, global_mean, global_count) ==
    LET cs == calculate_confidence_score(row.Average_Sentiment_Score,
                                         row.Feedback_Count, global_mean, global_count)
    IN  [Course_code |-> row.Course_code,
         Raw_Score |-> row.Average_Sentiment_Score,
         Feedback_Count |-> row.Feedback_Count,
         Bayesian_Score |-> cs.bayesian,
         Bayesian_Score_fl |->
             calculate_bayesian_average_fl(FlRound(row.Average_Sentiment_Score),
                                           row.Feedback_Count, FlRound(global_mean),
                                           MINIMUM_FEEDBACK_THRESHOLD),
         Size_Weight_Sq |-> cs.size_weight_sq,
         Confidence_Adjusted_Score |-> cs.confidence_adjusted,
         Confidence_Adjusted_Score_fl |->
             calculate_confidence_score_fl(FlRound(row.Average_Sentiment_Score),
                                           row.Feedback_Count, FlRound(global_mean),
                                           global_count),
         Reliability_Rating |-> Reliability_Rating(row.Feedback_Count)]

GLOBAL_MEAN(df) ==
    LET RECURSIVE Sum(_)
        Sum(i) == IF i = 0 THEN RInt(0)
                  ELSE RAdd(Sum(i - 1), df[i].Average_Sentiment_Score)
    IN  RDiv(Sum(Len(df)), RInt(Len(df)))

GLOBAL_FEEDBACK_MEAN(df) ==
    LET RECURSIVE Sum(_)
        Sum(i) == IF i = 0 THEN 0 ELSE Sum(i - 1) + df[i].Feedback_Count
    IN  Rat(Sum(Len(df)), Len(df))

\* DataFrame.sort_values('Confidence_Adjusted_Score', ascending=False): rows
\* in descending key order, rows of equal key in the order they had (numpy
\* sorts fewer than 17 elements by insertion).
RECURSIVE InsertDescending(_, _)
InsertDescending(row, sorted) ==
    IF sorted = <<>> THEN <<row>>
    ELSE IF SCmp(Head(sorted).Confidence_Adjusted_Score,
                 row.Confidence_Adjusted_Score) >= 0
         THEN <<Head(sorted)>> \o InsertDescending(row, Tail(sorted))
         ELSE <<row>> \o sorted

\* sort_values called without keeping its result
sort_values_discarded(df) == df

RECURSIVE sort_values(_)
sort_values(df) ==
    IF df = <<>> THEN <<>>
    ELSE InsertDescending(df[Len(df)], sort_values(SubSeq(df, 1, Len(df) - 1)))

(***************************************************************************)
(* Topic names: run_lda_from_db.py                                         *)
(*                                                                         *)
(* A keyword is a lower-case vocabulary term of the vectorizer; a topic    *)
(* name is the sequence of the tokens str.split() finds in it.             *)
(***************************************************************************)
Vocabulary ==
    {"teaching", "explain", "assignments", "deadlines", "exam", "course",
     "available", "room"}

\* terms none of the patterns occurs in
Fillers ==
    <<"students", "really", "things", "always", "never", "every", "often", "maybe",
      "quite", "again">>

\* str.title() on the vocabulary and the fillers
Title(k) ==
    CASE k = "teaching" -> "Teaching"
      [] k = "explain" -> "Explain"
      [] k = "assignments" -> "Assignments"
      [] k = "deadlines" -> "Deadlines"
      [] k = "exam" -> "Exam"
      [] k = "course" -> "Course"
      [] k = "available" -> "Available"
      [] k = "room" -> "Room"
      [] k = "students" -> "Students"
      [] k = "really" -> "Really"
      [] k = "things" -> "Things"
      [] k = "always" -> "Always"
      [] k = "never" -> "Never"
      [] k = "every" -> "Every"
      [] k = "often" -> "Often"
      [] k = "maybe" -> "Maybe"
      [] k = "quite" -> "Quite"
      [] k = "again" -> "Again"

topic_patterns ==
    << [category |-> <<"Teaching", "Quality">>,
        patterns |-> {"teaching", "instructor", "professor", "explain", "explains",
                      "clear", "understanding", "lectures", "lecture"}],
       [category |-> <<"Course", "Content">>,
        patterns |-> {"content", "material", "materials", "topics", "subject",
                      "curriculum", "knowledge", "learning"}],
       [category |-> <<"Assignments", "&", "Workload">>,
        patterns |-> {"assignments", "homework", "workload", "tasks", "work",
                      "projects", "assignment", "deadline"}],
       [category |-> <<"Class", "Engagement">>,
        patterns |-> {"class", "interactive", "activities", "discussions",
                      "participate", "engaging", "interesting", "attention"}],
       [category |-> <<"Assessment", "&", "Grading">>,
        patterns |-> {"exam", "exams", "test", "tests", "grade", "grading",
                      "feedback", "assessment", "evaluation"}],
       [category |-> <<"Time", "Management">>,
        patterns |-> {"time", "schedule", "pace", "pacing", "deadlines", "timing",
                      "duration", "hours"}],
       [category |-> <<"Learning", "Support">>,
        patterns |-> {"help", "support", "guidance", "office", "hours", "questions",
                      "clarification", "assistance"}],
       [category |-> <<"Course", "Organization">>,
        patterns |-> {"organized", "structure", "syllabus", "schedule", "plan",
                      "organization"}],
       [category |-> <<"Student", "Experience">>,
        patterns |-> {"experience", "enjoy", "enjoyed", "appreciate", "liked",
                      "love", "positive", "good"}],
       [category |-> <<"Communication">>,
        patterns |-> {"communication", "responds", "response", "email", "available",
                      "accessible", "communicates"}] >>

\* the patterns p of the table with `p in kw`, for kw of the vocabulary
PatternsIn(kw) ==
    LET proper == CASE kw = "assignments" -> {"assignment"}
                    [] kw = "deadlines" -> {"deadline"}
                    [] OTHER -> {}
    IN  {p \in {kw} \cup proper :
            \E i \in 1 .. Len(topic_patterns) : p \in topic_patterns[i].patterns}

Min(a, b) == IF a <= b THEN a ELSE b

\* sum(1 for kw in keyword_list if any(pattern in kw for pattern in patterns))
\* for the i-th category of the table
pattern_score(i, keywords) ==
    Cardinality({j \in 1 .. Min(Len(keywords), 10) :
                    PatternsIn(keywords[j]) \cap topic_patterns[i].patterns # {}})

\* category_scores after the first k categories of the table: the items of
\* the dict in insertion order, a category entering only with score > 0
RECURSIVE category_scores(_, _)
category_scores(keywords, k) ==
    IF k = 0 THEN <<>>
    ELSE LET before == category_scores(keywords, k - 1)
             score == pattern_score(k, keywords)
         IN  IF score > 0 THEN Append(before, [key |-> k, value |-> score])
             ELSE before

\* the scan of max that lets a later key of equal value replace the best
RECURSIVE max_scan_last(_, _)
max_scan_last(items, k) ==
    IF k = 1 THEN items[1]
    ELSE LET best == max_scan_last(items, k - 1)
         IN  IF items[k].value >= best.value THEN items[k] ELSE best

\* max(d, key=d.get): the keys are visited in insertion order and a key
\* replaces the best one only when its value is strictly greater
RECURSIVE max_scan(_, _)
max_scan(items, k) ==
    IF k = 1 THEN items[1]
    ELSE LET best == max_scan(items, k - 1)
         IN  IF items[k].value > best.value THEN items[k] ELSE best

max_by_value_last(items) == max_scan_last(items, Len(items)).key

max_by_value(items) == max_scan(items, Len(items)).key

generate_topic_name(keywords) ==
    LET scores == category_scores(keywords, Len(topic_patterns))
    IN  IF scores # <<>> THEN topic_patterns[max_by_value(scores)].category
        ELSE IF Len(keywords) >= 2
             THEN <<Title(keywords[1]), "&", Title(keywords[2])>>
             ELSE [i \in 1 .. Len(keywords) |-> Title(keywords[i])]

\* int(token): the decimal literals that occur as topic numbers
IntTokens == <<"1", "2", "3", "4", "5", "6", "7", "8">>

ParsesAsInt(token) == \E k \in 1 .. Len(IntTokens) : IntTokens[k] = token

IntOf(token) == CHOOSE k \in 1 .. Len(IntTokens) : IntTokens[k] = token

(***************************************************************************)
(* Insight rules of the database script: run_lda_from_db.py                *)
(*                                                                         *)
(* An emotion distribution gives every label its count; a label the dict   *)
(* lacks has count 0, as emotion_dist.get(label, 0) reads it.  Percentages *)
(* are exact: for topics of up to 12 documents the float c/total*100 and   *)
(* the sums of two of them stand on the same side of every threshold under *)
(* `>` as the exact values.  An insight is its category and priority.      *)
(***************************************************************************)
Labels == {"joy", "satisfaction", "acceptance", "boredom", "disappointment"}

Ins(c, p) == [category |-> c, priority |-> p]

TotalOf(emotion_dist) ==
    emotion_dist["joy"] + emotion_dist["satisfaction"] + emotion_dist["acceptance"]
        + emotion_dist["boredom"] + emotion_dist["disappointment"]

\* {e: (c/total*100) for e, c in emotion_dist.items()}
Percentages(emotion_dist) ==
    [e \in Labels |-> Rat(100 * emotion_dist[e], TotalOf(emotion_dist))]

Negative(emotions) == RAdd(emotions["boredom"], emotions["disappointment"])

Positive(emotions) == RAdd(emotions["joy"], emotions["satisfaction"])

\* x > k
Gt(x, k) == RLt(RInt(k), x)

\* set(k.lower() for k in keywords[:limit])
KeywordSet(keywords, limit) ==
    {keywords[i] : i \in 1 .. Min(Len(keywords), limit)}

AnyIn(words, keyword_set) == words \cap keyword_set # {}

\* the teaching rule with its threshold taken as 60
quality_teaching_above_60(keyword_set, emotions) ==
    IF ~AnyIn({"teaching", "instructor", "explain", "learning", "understand", "method"},
              keyword_set)
    THEN <<>>
    ELSE IF Gt(Negative(emotions), 60)
         THEN <<Ins("Teaching Effectiveness", "high")>>
              \o (IF Gt(emotions["boredom"], 25)
                  THEN <<Ins("Teaching Engagement", "high")>> ELSE <<>>)
              \o (IF Gt(emotions["disappointment"], 25)
                  THEN <<Ins("Teaching Quality", "high")>> ELSE <<>>)
         ELSE IF Gt(Positive(emotions), 50)
              THEN <<Ins("Teaching Effectiveness", "low")>>
              ELSE <<Ins("Teaching Effectiveness", "medium")>>

quality_teaching(keyword_set, emotions) ==
    IF ~AnyIn({"teaching", "instructor", "explain", "learning", "understand", "method"},
              keyword_set)
    THEN <<>>
    ELSE IF Gt(Negative(emotions), 40)
         THEN <<Ins("Teaching Effectiveness", "high")>>
              \o (IF Gt(emotions["boredom"], 25)
                  THEN <<Ins("Teaching Engagement", "high")>> ELSE <<>>)
              \o (IF Gt(emotions["disappointment"], 25)
                  THEN <<Ins("Teaching Quality", "high")>> ELSE <<>>)
         ELSE IF Gt(Positive(emotions), 50)
              THEN <<Ins("Teaching Effectiveness", "low")>>
              ELSE <<Ins("Teaching Effectiveness", "medium")>>

quality_materials(keyword_set, emotions) ==
    IF ~AnyIn({"materials", "assignments", "course", "provide", "resources", "content"},
              keyword_set)
    THEN <<>>
    ELSE IF Gt(Negative(emotions), 30)
         THEN <<Ins("Course Materials", "high")>>
              \o (IF AnyIn({"assignments", "homework"}, keyword_set)
                  THEN <<Ins("Assignment Design", "high")>> ELSE <<>>)
         ELSE IF Gt(Positive(emotions), 45)
              THEN <<Ins("Course Materials", "low")>>
              ELSE <<Ins("Course Materials", "medium")>>

quality_time(keyword_set, emotions) ==
    LET priority == IF Gt(Negative(emotions), 35) THEN "high" ELSE "medium"
    IN  IF ~AnyIn({"time", "deadlines", "schedule", "mindful", "workload", "pace"},
                  keyword_set)
        THEN <<>>
        ELSE <<Ins("Time Management & Workload", priority)>>
             \o (IF "deadlines" \in keyword_set
                 THEN <<Ins("Deadline Management", priority)>> ELSE <<>>)

quality_engagement(keyword_set, emotions) ==
    IF ~AnyIn({"interactive", "activities", "discussions", "experience", "participate",
               "engage"}, keyword_set)
    THEN <<>>
    ELSE IF Gt(emotions["boredom"], 30)
         THEN <<Ins("Student Engagement", "high")>>
         ELSE IF Gt(Positive(emotions), 45)
              THEN <<Ins("Student Engagement", "low")>>
              ELSE <<Ins("Student Engagement", "medium")>>

quality_assessment(keyword_set, emotions) ==
    IF ~AnyIn({"assessment", "exam", "test", "grading", "evaluation", "feedback",
               "grades"}, keyword_set)
    THEN <<>>
    ELSE IF Gt(Negative(emotions), 35)
         THEN <<Ins("Assessment & Evaluation", "high")>>
         ELSE IF Gt(Positive(emotions), 45)
              THEN <<Ins("Assessment & Evaluation", "low")>>
              ELSE <<>>

quality_structure(keyword_set, emotions) ==
    IF ~AnyIn({"course", "subject", "overall", "better", "need", "structure",
               "organized"}, keyword_set)
    THEN <<>>
    ELSE IF Gt(Negative(emotions), 35)
         THEN <<Ins("Course Structure", "high")>>
         ELSE IF Gt(Positive(emotions), 50)
              THEN <<Ins("Course Structure", "low")>>
              ELSE <<Ins("Course Structure", "medium")>>

quality_communication(keyword_set, emotions) ==
    IF ~AnyIn({"communication", "questions", "help", "support", "available", "office",
               "hours"}, keyword_set)
    THEN <<>>
    ELSE IF Gt(Negative(emotions), 30)
         THEN <<Ins("Communication & Support", "high")>>
         ELSE <<Ins("Communication & Support", "medium")>>

\* the fallback with its negative threshold taken as 50
quality_overall_above_50(emotions) ==
    IF Gt(Positive(emotions), 50) THEN <<Ins("Overall Performance", "low")>>
    ELSE IF Gt(Negative(emotions), 50) THEN <<Ins("Overall Performance", "high")>>
    ELSE <<Ins("Overall Performance", "medium")>>

quality_overall(emotions) ==
    IF Gt(Positive(emotions), 50) THEN <<Ins("Overall Performance", "low")>>
    ELSE IF Gt(Negative(emotions), 45) THEN <<Ins("Overall Performance", "high")>>
    ELSE <<Ins("Overall Performance", "medium")>>

\* The post-processing loop rewrites only the text of each insight.
generate_quality_insights(topic_idx, keywords, emotion_dist) ==
    IF TotalOf(emotion_dist) = 0 THEN <<Ins("General", "medium")>>
    ELSE LET emotions == Percentages(emotion_dist)
             keyword_set == KeywordSet(keywords, 15)
             insights == quality_teaching(keyword_set, emotions)
                         \o quality_materials(keyword_set, emotions)
                         \o quality_time(keyword_set, emotions)
                         \o quality_engagement(keyword_set, emotions)
                         \o quality_assessment(keyword_set, emotions)
                         \o quality_structure(keyword_set, emotions)
                         \o quality_communication(keyword_set, emotions)
         IN  IF insights = <<>> THEN quality_overall(emotions) ELSE insights

(***************************************************************************)
(* Insight rules of the API: views.py generate_topic_insights              *)
(*                                                                         *)
(* The rules read emotion counts, not percentages; `emotion_dist and ...`  *)
(* is false for the empty dict a topic without documents gets.             *)
(***************************************************************************)
generate_topic_insights(keywords, emotion_dist) ==
    LET keyword_set == KeywordSet(keywords, Len(keywords))
        nonempty == TotalOf(emotion_dist) > 0
        teaching ==
            IF ~AnyIn({"teaching", "explain", "instruction", "clear", "understanding"},
                      keyword_set)
            THEN <<>>
            ELSE IF nonempty /\ emotion_dist["boredom"] > emotion_dist["joy"]
                 THEN <<Ins("Teaching Methods", "high")>>
                 ELSE <<Ins("Teaching Methods", "medium")>>
        materials ==
            IF AnyIn({"material", "resource", "book", "slide", "handout", "notes"},
                     keyword_set)
            THEN <<Ins("Learning Materials", "medium")>> ELSE <<>>
        assessment ==
            IF ~AnyIn({"exam", "test", "grade", "assessment", "quiz", "assignment"},
                      keyword_set)
            THEN <<>>
            ELSE IF nonempty /\ emotion_dist["disappointment"] > 0
                 THEN <<Ins("Assessment", "high")>>
                 ELSE <<Ins("Assessment", "low")>>
        time ==
            IF AnyIn({"time", "deadline", "schedule", "pace", "rushed"}, keyword_set)
            THEN <<Ins("Time Management", "high")>> ELSE <<>>
        engagement ==
            IF ~AnyIn({"engaging", "interesting", "boring", "motivate", "attention"},
                      keyword_set)
            THEN <<>>
            ELSE IF nonempty /\ emotion_dist["boredom"] > 2
                 THEN <<Ins("Student Engagement", "high")>>
                 ELSE IF nonempty /\ emotion_dist["joy"] > 3
                      THEN <<Ins("Student Engagement", "low")>>
                      ELSE <<>>
        communication ==
            IF AnyIn({"feedback", "communicate", "response", "question", "help"},
                     keyword_set)
            THEN <<Ins("Communication", "medium")>> ELSE <<>>
        organization ==
            IF AnyIn({"organize", "structure", "plan", "syllabus", "clear"}, keyword_set)
            THEN <<Ins("Course Organization", "medium")>> ELSE <<>>
        insights == teaching \o materials \o assessment \o time \o engagement
                        \o communication \o organization
    IN  IF insights = <<>> THEN <<Ins("General", "low")>> ELSE insights

(***************************************************************************)
(* Insights of the offline script: topic_modeling_lda.py and the generator *)
(* of api/ml_models/insight_generator.py it tries first                    *)
(***************************************************************************)
\* n_topics of topic_modeling_lda.py
OFFLINE_N_TOPICS == 8

\* the list `categories` before the slice of line 276
matched_categories(keywords) ==
    LET keyword_set == KeywordSet(keywords, Len(keywords))
        pick(words, category) ==
            IF AnyIn(words, keyword_set) THEN <<category>> ELSE <<>>
        categories ==
            pick({"teaching", "teach", "instructor", "explain", "lecture"}, "teaching")
            \o pick({"exam", "test", "grade", "assessment", "quiz"}, "assessment")
            \o pick({"material", "book", "slide", "resource", "content"}, "materials")
            \o pick({"engaging", "boring", "interesting", "attention"}, "engagement")
            \o pick({"feedback", "communicate", "response", "question"}, "communication")
            \o pick({"organize", "structure", "plan", "syllabus"}, "organization")
    IN  IF categories = <<>> THEN <<"general">> ELSE categories

\* the function without the slice
_determine_categories_unsliced(keywords) == matched_categories(keywords)

_determine_categories(keywords) ==
    LET all == matched_categories(keywords)
    IN  SubSeq(all, 1, Min(Len(all), 2))

_determine_priority(emotion_dist) ==
    LET total == TotalOf(emotion_dist)
        negative_pct ==
            Rat(100 * (emotion_dist["boredom"] + emotion_dist["disappointment"]), total)
    IN  IF total = 0 THEN "medium"
        ELSE IF Gt(negative_pct, 50) THEN "high"
        ELSE IF Gt(negative_pct, 25) THEN "medium"
        ELSE "low"

\* category.replace('_', ' ').title()
CategoryTitle(category) ==
    CASE category = "teaching" -> "Teaching"
      [] category = "assessment" -> "Assessment"
      [] category = "materials" -> "Materials"
      [] category = "engagement" -> "Engagement"
      [] category = "communication" -> "Communication"
      [] category = "organization" -> "Organization"
      [] category = "general" -> "General"

\* the topic_insights generate_insights_batch builds for one topic
generate_insights_batch(keywords, emotion_dist) ==
    LET categories == _determine_categories(keywords)
    IN  [i \in 1 .. Len(categories) |->
            Ins(CategoryTitle(categories[i]), _determine_priority(emotion_dist))]

generate_lda_insights(topic_idx, keywords, emotion_dist) ==
    IF TotalOf(emotion_dist) = 0 THEN <<>>
    ELSE
    LET emotions == Percentages(emotion_dist)
        keyword_set == KeywordSet(keywords, 10)
        negative_emotions == Negative(emotions)
        positive_emotions == Positive(emotions)
        base_priority == IF Gt(negative_emotions, 50) THEN "high"
                         ELSE IF Gt(negative_emotions, 25) THEN "medium" ELSE "low"
        teaching ==
            IF ~AnyIn({"teaching", "teach", "instructor", "professor", "explain",
                       "instruction", "lecture"}, keyword_set)
            THEN <<>>
            ELSE IF RLt(positive_emotions, negative_emotions)
                 THEN <<Ins("Teaching Methods", "high")>>
                 ELSE IF Gt(positive_emotions, 50)
                      THEN <<Ins("Teaching Methods", "low")>>
                      ELSE <<>>
        materials ==
            IF ~AnyIn({"material", "content", "book", "slide", "resource", "handout",
                       "note", "reading"}, keyword_set)
            THEN <<>>
            ELSE IF Gt(emotions["boredom"], 30)
                 THEN <<Ins("Learning Materials", "high")>>
                 ELSE <<Ins("Learning Materials", base_priority)>>
        assessment ==
            IF ~AnyIn({"exam", "test", "grade", "grading", "assessment", "quiz",
                       "assignment", "homework"}, keyword_set)
            THEN <<>>
            ELSE IF Gt(emotions["disappointment"], 20)
                 THEN <<Ins("Assessment", "high")>>
                 ELSE IF Gt(emotions["acceptance"], 40)
                      THEN <<Ins("Assessment", "medium")>>
                      ELSE <<>>
        time ==
            IF ~AnyIn({"time", "deadline", "schedule", "pace", "pacing", "rushed",
                       "fast", "slow"}, keyword_set)
            THEN <<>>
            ELSE IF Gt(negative_emotions, 40)
                 THEN <<Ins("Time Management", "high")>>
                 ELSE <<Ins("Time Management", "medium")>>
        engagement ==
            IF ~AnyIn({"engaging", "engage", "interesting", "interest", "boring",
                       "bore", "motivate", "attention"}, keyword_set)
            THEN <<>>
            ELSE IF Gt(emotions["boredom"], 35)
                 THEN <<Ins("Student Engagement", "high")>>
                 ELSE IF Gt(emotions["joy"], 40)
                      THEN <<Ins("Student Engagement", "low")>>
                      ELSE <<>>
        communication ==
            IF ~AnyIn({"feedback", "communicate", "communication", "response",
                       "respond", "question", "help", "support"}, keyword_set)
            THEN <<>>
            ELSE IF Gt(negative_emotions, 30)
                 THEN <<Ins("Communication", "high")>>
                 ELSE <<Ins("Communication", "medium")>>
        organization ==
            IF ~AnyIn({"organize", "organization", "structure", "structured", "plan",
                       "planning", "syllabus", "clear", "clarity"}, keyword_set)
            THEN <<>>
            ELSE IF RLt(emotions["acceptance"], RInt(30)) /\ Gt(negative_emotions, 25)
                 THEN <<Ins("Course Organization", "high")>>
                 ELSE <<Ins("Course Organization", "medium")>>
        insights == teaching \o materials \o assessment \o time \o engagement
                        \o communication \o organization
    IN  IF insights # <<>> THEN insights
        ELSE IF Gt(positive_emotions, 60) THEN <<Ins("Overall Course Quality", "low")>>
        ELSE IF Gt(negative_emotions, 50) THEN <<Ins("Overall Course Quality", "high")>>
        ELSE <<Ins("Overall Course Quality", "medium")>>

(***************************************************************************)
(* Inputs                                                                  *)
(***************************************************************************)
MaxCount == 12

MaxGroups == 3

NoRow == [Course_code |-> "none"]

\* Average_Sentiment_Score lies in [-2, 2]; tenths
ScoreTenths == {-20, -12, 0, 3, 18, 20}

\* and one score whose float arithmetic rounds visibly when it meets itself
\* as the global mean
Scores == {Rat(k, 10) : k \in ScoreTenths} \cup {Rat(-192, 100)}

\* GLOBAL_MEAN is a mean of such scores: any rational of [-2, 2]
Means == Scores \cup {Rat(47, 100)}

Counts == (0 .. MaxCount) \cup {50}

\* rows of a ranking run
RankScores == {Rat(k, 10) : k \in {-12, 3, 18}}

RankCounts == {0, 1, 10, 50}

RowIndex(r) ==
    LET k == (r.Average_Sentiment_Score.n * 10) \div r.Average_Sentiment_Score.d
    IN  (k + 20) * 100 + r.Feedback_Count

CsvRows == [Average_Sentiment_Score : RankScores, Feedback_Count : RankCounts]

\* the files of 1 .. MaxGroups rows, one order of each; Reorder gives the rest
CsvFiles ==
    {f \in UNION {[1 .. k -> CsvRows] : k \in 1 .. MaxGroups} :
        \A i \in 1 .. Len(f) - 1 : RowIndex(f[i]) <= RowIndex(f[i + 1])}

WithCodes(f) ==
    [i \in 1 .. Len(f) |->
        [Course_code |-> i,
         Average_Sentiment_Score |-> f[i].Average_Sentiment_Score,
         Feedback_Count |-> f[i].Feedback_Count]]

FileOrders(n) ==
    {f \in [1 .. n -> 1 .. n] : \A i, j \in 1 .. n : f[i] = f[j] => i = j}

(***************************************************************************)
(* The per-row transform on drawn inputs                                   *)
(***************************************************************************)
InsightIdle ==
    /\ prog = "none"
    /\ t_idx = 0
    /\ t_name = <<>>
    /\ t_keywords = <<>>
    /\ t_dist = [e \in Labels |-> 0]
    /\ ipc = "idle"
    /\ t_insights = <<>>
    /\ error = "none"

RunIdle ==
    /\ entry = "none"
    /\ corpus_kind = "none"
    /\ role = "none"
    /\ n_submitted = 0
    /\ n_text = 0
    /\ rpc = "idle"
    /\ feedback_data = 0
    /\ n_topics = 0
    /\ fitted = FALSE
    /\ outcome = "none"

NamesIdle ==
    /\ n_prog = "none"
    /\ n_K = 0
    /\ feature_names = {}
    /\ n_idx = 0
    /\ used_names = <<>>
    /\ topic_names = <<>>
    /\ topics_dict = <<>>
    /\ dominant_counts = <<>>
    /\ topic_emotion_dist = <<>>
    /\ emotion_dists = <<>>
    /\ npc = "idle"

AssignIdle ==
    /\ lda_output = <<>>
    /\ dominant_topic = <<>>
    /\ topic_probability = <<>>
    /\ apc = "idle"

Runs == {1, 2}

GenIdle ==
    /\ g_keywords = <<>>
    /\ g_dist = [e \in Labels |-> 0]
    /\ gpc = [r \in Runs |-> "idle"]
    /\ g_failed = [r \in Runs |-> "none"]
    /\ g_insights = [r \in Runs |-> <<>>]
    /\ g_method = [r \in Runs |-> "none"]

FileNames == {"topics_keywords.csv", "feedback_with_topics.csv"}

ConcIdle ==
    /\ db_count = 0
    /\ insights_file = "absent"
    /\ cpc = [r \in Runs |-> "idle"]
    /\ snapshot = [r \in Runs |-> 0]
    /\ files = [f \in FileNames |-> 0]

MaxRequests == 2

Requests == 1 .. MaxRequests

\* task 0 is the one trigger_topic_modeling starts, task r the one request r starts
TaskIds == 0 .. MaxRequests

TrigIdle ==
    /\ db_submitted = 0
    /\ rq = [r \in Requests |-> "none"]
    /\ made = [r \in Requests |-> 0]
    /\ total_feedbacks = [r \in Requests |-> 0]
    /\ admin_rq = "none"
    /\ task = [t \in TaskIds |-> "none"]
    /\ lda_insights_json = "absent"
    /\ written_at_count = 0
    /\ launched = {}

BatchIdle ==
    /\ topics_data = <<>>
    /\ all_insights = <<>>
    /\ bpc = "idle"

SingleIdle ==
    /\ cuda_available = FALSE
    /\ n_objects = 0
    /\ cls_instance = 0
    /\ self_tokenizer = "None"
    /\ self_model = "None"
    /\ pad_token_set = FALSE
    /\ _insight_generator = 0
    /\ calls = <<>>

LateIdle == TrigIdle /\ BatchIdle /\ SingleIdle

PipeIdle == NamesIdle /\ AssignIdle /\ GenIdle /\ ConcIdle /\ LateIdle

RankIdle ==
    /\ scores_df = <<>>
    /\ adjusted_scores = <<>>
    /\ adjusted_df_sorted = <<>>
    /\ spc = "idle"
    /\ rankings_csv = <<>>
    /\ csv_history = <<>>

RowIdle ==
    /\ in_score = RInt(0)
    /\ in_count = 0
    /\ in_count2 = 0
    /\ in_gm = RInt(0)
    /\ row_out = NoRow
    /\ row_out2 = NoRow

InitRow ==
    /\ in_score \in Scores
    /\ in_count \in Counts
    /\ in_count2 \in Counts
    /\ in_gm \in Means
    /\ row_out = NoRow
    /\ row_out2 = NoRow
    /\ RankIdle
    /\ InsightIdle
    /\ RunIdle
    /\ PipeIdle

InRow(count) ==
    [Course_code |-> "course", Average_Sentiment_Score |-> in_score,
     Feedback_Count |-> count]

\* one iteration of the loop at lines 80-100
ScoreRow ==
    /\ row_out = NoRow
    /\ row_out' = AdjustedRow(InRow(in_count), in_gm, RInt(0))
    /\ UNCHANGED <<in_score, in_count, in_count2, in_gm, row_out2, rankVars, insightVars, runVars, pipeVars>>

ScoreRow2 ==
    /\ row_out # NoRow
    /\ row_out2 = NoRow
    /\ row_out2' = AdjustedRow(InRow(in_count2), in_gm, RInt(0))
    /\ UNCHANGED <<in_score, in_count, in_count2, in_gm, row_out, rankVars, insightVars, runVars, pipeVars>>

NextRow == ScoreRow \/ ScoreRow2

SpecRow == InitRow /\ [][NextRow]_vars

(***************************************************************************)
(* A run of the ranking script, and a second run on the reordered file     *)
(***************************************************************************)
InitRank ==
    /\ scores_df \in {WithCodes(f) : f \in CsvFiles}
    /\ adjusted_scores = <<>>
    /\ adjusted_df_sorted = <<>>
    /\ spc = "loop"
    /\ rankings_csv = <<>>
    /\ csv_history = <<>>
    /\ RowIdle
    /\ InsightIdle
    /\ RunIdle
    /\ PipeIdle

\* lines 80-100: the next row of scores_df
AdjustRow ==
    /\ spc = "loop"
    /\ Len(adjusted_scores) < Len(scores_df)
    /\ adjusted_scores' =
           Append(adjusted_scores,
                  AdjustedRow(scores_df[Len(adjusted_scores) + 1],
                              GLOBAL_MEAN(scores_df), GLOBAL_FEEDBACK_MEAN(scores_df)))
    /\ UNCHANGED <<scores_df, adjusted_df_sorted, spc, rankings_csv, csv_history, rowVars, insightVars, runVars, pipeVars>>

\* lines 102-105
SortRows ==
    /\ spc = "loop"
    /\ Len(adjusted_scores) = Len(scores_df)
    /\ adjusted_df_sorted' = sort_values(adjusted_scores)
    /\ spc' = "sort"
    /\ UNCHANGED <<scores_df, adjusted_scores, rankings_csv, csv_history, rowVars, insightVars, runVars, pipeVars>>

\* lines 107-109
SaveCsv ==
    /\ spc = "sort"
    /\ rankings_csv' = adjusted_df_sorted
    /\ csv_history' = Append(csv_history, adjusted_df_sorted)
    /\ spc' = "done"
    /\ UNCHANGED <<scores_df, adjusted_scores, adjusted_df_sorted, rowVars, insightVars, runVars, pipeVars>>

\* the same rows in another file order, and the script started again
Reorder ==
    /\ spc = "done"
    /\ Len(csv_history) = 1
    /\ \E f \in FileOrders(Len(scores_df)) :
           scores_df' = [i \in 1 .. Len(scores_df) |-> scores_df[f[i]]]
    /\ adjusted_scores' = <<>>
    /\ adjusted_df_sorted' = <<>>
    /\ spc' = "loop"
    /\ UNCHANGED <<rankings_csv, csv_history, rowVars, insightVars, runVars, pipeVars>>

NextRank == AdjustRow \/ SortRows \/ SaveCsv \/ Reorder

SpecRank == InitRank /\ [][NextRank]_vars

(***************************************************************************)
(* Inputs of the insight step                                              *)
(***************************************************************************)
MaxKw == 2

\* the topic sizes drawn: no document, one, two, five (60% is 3 of 5)
TopicSizes == {0, 1, 2, 5}

\* top words of a fitted topic: distinct vocabulary terms, at least one
KeywordLists ==
    {k \in UNION {[1 .. n -> Vocabulary] : n \in 1 .. MaxKw} :
        \A i, j \in 1 .. Len(k) : k[i] = k[j] => i = j}

EmotionDists ==
    {d \in [Labels -> 0 .. 5] : TotalOf(d) \in TopicSizes}

Programs == {"run_lda_from_db", "views", "topic_modeling_lda"}

RowRankIdle == RowIdle /\ RankIdle

(***************************************************************************)
(* The insight step for one topic, in each of the three programs           *)
(***************************************************************************)
InitInsight ==
    /\ prog \in Programs
    /\ t_keywords \in KeywordLists
    /\ t_dist \in EmotionDists
    /\ t_idx = (IF prog = "topic_modeling_lda" THEN OFFLINE_N_TOPICS - 1 ELSE 0)
    /\ t_name = (IF prog = "topic_modeling_lda" THEN <<"Topic", IntTokens[t_idx + 1]>>
                 ELSE generate_topic_name(t_keywords))
    /\ ipc = "topic"
    /\ t_insights = <<>>
    /\ error = "none"
    /\ RowRankIdle
    /\ RunIdle
    /\ PipeIdle

\* run_lda_from_db.py lines 527-539: the argument int(topic.split()[1]) - 1 is
\* evaluated before generate_quality_insights is entered; nothing catches
\* the exception.
ScriptInsightStep ==
    /\ prog = "run_lda_from_db"
    /\ ipc = "topic"
    /\ IF Len(t_name) < 2
       THEN /\ ipc' = "crashed"
            /\ error' = "IndexError"
            /\ UNCHANGED t_insights
       ELSE IF ~ParsesAsInt(t_name[2])
            THEN /\ ipc' = "crashed"
                 /\ error' = "ValueError"
                 /\ UNCHANGED t_insights
            ELSE /\ t_insights' = generate_quality_insights(IntOf(t_name[2]) - 1,
                                                            t_keywords, t_dist)
                 /\ ipc' = "done"
                 /\ UNCHANGED error
    /\ UNCHANGED <<prog, t_idx, t_name, t_keywords, t_dist, rowVars, rankVars, runVars, pipeVars>>

\* views.py lines 1193-1205
ApiInsightStep ==
    /\ prog = "views"
    /\ ipc = "topic"
    /\ t_insights' = generate_topic_insights(t_keywords, t_dist)
    /\ ipc' = "done"
    /\ UNCHANGED <<prog, t_idx, t_name, t_keywords, t_dist, error, rowVars, rankVars, runVars, pipeVars>>

\* topic_modeling_lda.py lines 441-465: the generator loads and answers; the
\* print loop then reads the topic number off the name, and an exception
\* there falls back like any other.
OfflineGptInsights ==
    /\ prog = "topic_modeling_lda"
    /\ ipc = "topic"
    /\ t_insights' =
           (IF Len(t_name) >= 2 /\ ParsesAsInt(t_name[2])
            THEN generate_insights_batch(t_keywords, t_dist)
            ELSE generate_lda_insights(t_idx, t_keywords, t_dist))
    /\ ipc' = "done"
    /\ UNCHANGED <<prog, t_idx, t_name, t_keywords, t_dist, error, rowVars, rankVars, runVars, pipeVars>>

\* topic_modeling_lda.py lines 466-498: the generator raised (no model, no
\* torch) and the LDA-based rules are used
OfflineFallbackInsights ==
    /\ prog = "topic_modeling_lda"
    /\ ipc = "topic"
    /\ t_insights' = generate_lda_insights(t_idx, t_keywords, t_dist)
    /\ ipc' = "done"
    /\ UNCHANGED <<prog, t_idx, t_name, t_keywords, t_dist, error, rowVars, rankVars, runVars, pipeVars>>

NextInsight ==
    ScriptInsightStep \/ ApiInsightStep \/ OfflineGptInsights \/ OfflineFallbackInsights

SpecInsight == InitInsight /\ [][NextInsight]_vars

(***************************************************************************)
(* generate_quality_insights applied to drawn arguments                    *)
(***************************************************************************)
\* the arguments of the rule engine: the vocabulary and a term of the
\* engagement rule, which the vocabulary lacks
RuleVocabulary == Vocabulary \cup {"activities"}

RuleKeywordLists ==
    {k \in UNION {[1 .. n -> RuleVocabulary] : n \in 1 .. MaxKw} :
        \A i, j \in 1 .. Len(k) : k[i] = k[j] => i = j}

InitFn ==
    /\ prog = "generate_quality_insights"
    /\ t_keywords \in RuleKeywordLists
    /\ t_dist \in EmotionDists
    /\ t_idx = 0
    /\ t_name = <<>>
    /\ ipc = "topic"
    /\ t_insights = <<>>
    /\ error = "none"
    /\ RowRankIdle
    /\ RunIdle
    /\ PipeIdle

ApplyQualityInsights ==
    /\ prog = "generate_quality_insights"
    /\ ipc = "topic"
    /\ t_insights' = generate_quality_insights(t_idx, t_keywords, t_dist)
    /\ ipc' = "done"
    /\ UNCHANGED <<prog, t_idx, t_name, t_keywords, t_dist, error, rowVars, rankVars, runVars, pipeVars>>

NextFn == ApplyQualityInsights

SpecFn == InitFn /\ [][NextFn]_vars

(***************************************************************************)
(* A topic-modelling run up to the fit: the API view and the script        *)
(***************************************************************************)
MaxFeedbacks == 12

Roles == {"student", "faculty", "admin"}

\* a corpus whose terms all fail min_df / max_df / the stop words leaves the
\* vectorizer no vocabulary; a degenerate corpus has a vocabulary and a
\* document without any of its terms (an all-zero row of the matrix)
CorpusKinds == {"ok", "empty vocabulary", "degenerate"}

InitRun ==
    /\ entry \in {"api", "script"}
    /\ corpus_kind \in CorpusKinds
    /\ role \in (IF entry = "api" THEN Roles ELSE {"none"})
    /\ n_submitted \in 0 .. MaxFeedbacks
    /\ n_text \in 0 .. n_submitted
    /\ rpc = "start"
    /\ feedback_data = 0
    /\ n_topics = 0
    /\ fitted = FALSE
    /\ outcome = "none"
    /\ RowRankIdle
    /\ InsightIdle
    /\ PipeIdle

\* views.py lines 996-1002
ApiRoleCheck ==
    /\ entry = "api"
    /\ rpc = "start"
    /\ IF role \in {"faculty", "admin"}
       THEN rpc' = "count" /\ UNCHANGED outcome
       ELSE rpc' = "end" /\ outcome' = "403 forbidden"
    /\ UNCHANGED <<entry, corpus_kind, role, n_submitted, n_text, feedback_data, n_topics, fitted,
                   rowVars, rankVars, insightVars, pipeVars>>

\* views.py lines 1012-1040
ApiCountCheck ==
    /\ entry = "api"
    /\ rpc = "count"
    /\ IF n_submitted < 10
       THEN rpc' = "end" /\ outcome' = "error: need at least 10 feedbacks"
       ELSE rpc' = "collect" /\ UNCHANGED outcome
    /\ UNCHANGED <<entry, corpus_kind, role, n_submitted, n_text, feedback_data, n_topics, fitted,
                   rowVars, rankVars, insightVars, pipeVars>>

\* views.py lines 1042-1078
ApiCollect ==
    /\ entry = "api"
    /\ rpc = "collect"
    /\ feedback_data' = n_text
    /\ IF n_text < 10
       THEN rpc' = "end" /\ outcome' = "error: need at least 10 text feedbacks"
       ELSE rpc' = "fit" /\ UNCHANGED outcome
    /\ UNCHANGED <<entry, corpus_kind, role, n_submitted, n_text, n_topics, fitted,
                   rowVars, rankVars, insightVars, pipeVars>>

\* views.py lines 1080-1123 and 1217-1223: the vectorizer raises when no term
\* survives min_df and max_df, and the handler answers 500
ApiFit ==
    /\ entry = "api"
    /\ rpc = "fit"
    /\ LET vocabulary_ok == corpus_kind # "empty vocabulary" IN
           IF vocabulary_ok
           THEN /\ n_topics' = Min(8, IF feedback_data \div 3 > 3
                                      THEN feedback_data \div 3 ELSE 3)
                /\ fitted' = TRUE
                /\ outcome' = "topics"
           ELSE /\ outcome' = "500 failed to generate"
                /\ UNCHANGED <<n_topics, fitted>>
    /\ rpc' = "end"
    /\ UNCHANGED <<entry, corpus_kind, role, n_submitted, n_text, feedback_data,
                   rowVars, rankVars, insightVars, pipeVars>>

\* run_lda_from_db.py lines 30-35
ScriptCountCheck ==
    /\ entry = "script"
    /\ rpc = "start"
    /\ IF n_submitted < 10
       THEN rpc' = "end" /\ outcome' = "exit 1: need at least 10 feedbacks"
       ELSE rpc' = "collect" /\ UNCHANGED outcome
    /\ UNCHANGED <<entry, corpus_kind, role, n_submitted, n_text, feedback_data, n_topics, fitted,
                   rowVars, rankVars, insightVars, pipeVars>>

\* run_lda_from_db.py lines 37-70: the loop keeps the non-blank texts, and
\* nothing counts them
ScriptCollect ==
    /\ entry = "script"
    /\ rpc = "collect"
    /\ feedback_data' = n_text
    /\ rpc' = "fit"
    /\ UNCHANGED <<entry, corpus_kind, role, n_submitted, n_text, n_topics, fitted, outcome,
                   rowVars, rankVars, insightVars, pipeVars>>

\* run_lda_from_db.py lines 72-109: an empty frame has no 'feedback' column,
\* n_components = 0 is refused, and the vectorizer raises when no term
\* survives; nothing catches any of these
ScriptFit ==
    /\ entry = "script"
    /\ rpc = "fit"
    /\ LET vocabulary_ok == corpus_kind # "empty vocabulary" IN
           IF feedback_data = 0
           THEN /\ outcome' = "traceback: KeyError"
                /\ UNCHANGED <<n_topics, fitted>>
           ELSE IF ~vocabulary_ok
           THEN /\ outcome' = "traceback: ValueError"
                /\ UNCHANGED <<n_topics, fitted>>
           ELSE /\ n_topics' = Min(5, feedback_data \div 2)
                /\ IF feedback_data \div 2 = 0
                   THEN outcome' = "traceback: ValueError" /\ UNCHANGED fitted
                   ELSE outcome' = "topics" /\ fitted' = TRUE
    /\ rpc' = "end"
    /\ UNCHANGED <<entry, corpus_kind, role, n_submitted, n_text, feedback_data,
                   rowVars, rankVars, insightVars, pipeVars>>

NextRun ==
    \/ ApiRoleCheck \/ ApiCountCheck \/ ApiCollect \/ ApiFit
    \/ ScriptCountCheck \/ ScriptCollect \/ ScriptFit

SpecRun == InitRun /\ [][NextRun]_vars

(***************************************************************************)
(* Naming the topics of one run.  components_ has one row per topic; the   *)
(* top words of a topic are the leading terms of feature_names in the      *)
(* order of the topic's weights.                                           *)
(***************************************************************************)
MaxTopics == 3

NameVocabulary == {"teaching", "exam", "available", "room"}

\* topic.argsort()[-15:][::-1] over feature_names: the leading terms, in
\* any order, MaxKw of them here
TopWords(features) ==
    {w \in [1..Min(MaxKw, Cardinality(features)) -> features] :
        \A i, j \in DOMAIN w : i # j => w[i] # w[j]}

\* a Python dict, as the sequence of its items in insertion order
DictHas(d, key) == \E i \in 1..Len(d) : d[i].key = key

DictGet(d, key) == d[CHOOSE i \in 1..Len(d) : d[i].key = key].value

\* d[key] = value: a new key goes to the end, an old key keeps its place
DictSet(d, key, value) ==
    IF DictHas(d, key)
    THEN [i \in 1..Len(d) |-> IF d[i].key = key THEN [key |-> key, value |-> value]
                                                 ELSE d[i]]
    ELSE Append(d, [key |-> key, value |-> value])

\* list(d.keys())
DictKeys(d) == [i \in 1..Len(d) |-> d[i].key]

\* f"{base_name} ({unique_keyword})" as the tokens str.split() finds
UniqueName(base_name, top_words) ==
    Append(base_name, "(" \o Title(top_words[1]) \o ")")

notPipeVars == <<rowVars, rankVars, insightVars, runVars>>

NamesOthersIdle ==
    RowIdle /\ RankIdle /\ InsightIdle /\ RunIdle /\ AssignIdle /\ GenIdle /\ ConcIdle
        /\ LateIdle

notNamesVars == <<notPipeVars, assignVars, genVars, concVars, lateVars>>

crossVars == <<dominant_counts, topic_emotion_dist, emotion_dists>>

\* the labels of the documents of the corpus at hand
CrossLabels == {"joy", "boredom"}

NoLabels == [e \in Labels |-> 0]

\* the documents by dominant_topic and label: at least 10 of them, any
\* topic may be left without a document
LabelCounts ==
    {[e \in Labels |-> IF e \in CrossLabels THEN f[e] ELSE 0] :
        f \in [CrossLabels -> {0, 5}]}

DominantCounts(K) ==
    {c \in [1..K -> LabelCounts] :
        /\ \E t, u \in 1..K : \E e, f \in Labels :
               <<t, e>> # <<u, f>> /\ c[t][e] > 0 /\ c[u][f] > 0}

\* {topic_name_map.get(k, ...): v for k, v in topic_emotion_dist.items()}:
\* the rows of the cross-tabulation, one per dominant_topic that occurs, in
\* index order, keyed by topic name
RECURSIVE RekeyByName(_, _, _)
RekeyByName(names, counts, k) ==
    IF k = 0 THEN <<>>
    ELSE LET before == RekeyByName(names, counts, k - 1)
         IN  IF TotalOf(counts[k]) = 0 THEN before
             ELSE DictSet(before, names[k], counts[k])

\* topic_emotion_dist.get(topic_name, {})
DictGetOr(d, key, default) == IF DictHas(d, key) THEN DictGet(d, key) ELSE default

InitNames ==
    /\ n_prog \in {"views", "run_lda_from_db"}
    /\ n_K \in 3..MaxTopics
    /\ feature_names \in (SUBSET NameVocabulary) \ {{}}
    /\ n_idx = 0
    /\ used_names = <<>>
    /\ topic_names = <<>>
    /\ topics_dict = <<>>
    /\ dominant_counts = <<>>
    /\ topic_emotion_dist = <<>>
    /\ emotion_dists = <<>>
    /\ npc = "naming"
    /\ NamesOthersIdle

\* views.py lines 1157-1176: one turn of the loop over components_
ApiNameTopic ==
    /\ n_prog = "views"
    /\ npc = "naming"
    /\ n_idx < n_K
    /\ \E top_words \in TopWords(feature_names) :
        LET base_name == generate_topic_name(top_words)
        IN  IF DictHas(used_names, base_name)
            THEN /\ used_names' = DictSet(used_names, base_name,
                                          DictGet(used_names, base_name) + 1)
                 /\ topic_names' = Append(topic_names, UniqueName(base_name, top_words))
            ELSE /\ used_names' = DictSet(used_names, base_name, 1)
                 /\ topic_names' = Append(topic_names, base_name)
    /\ n_idx' = n_idx + 1
    /\ npc' = IF n_idx + 1 = n_K THEN "named" ELSE "naming"
    /\ UNCHANGED <<n_prog, n_K, feature_names, topics_dict, crossVars, notNamesVars>>

\* run_lda_from_db.py lines 151-160: one turn of the loop of display_topics
ScriptNameTopic ==
    /\ n_prog = "run_lda_from_db"
    /\ npc = "naming"
    /\ n_idx < n_K
    /\ \E top_words \in TopWords(feature_names) :
        topics_dict' = DictSet(topics_dict, generate_topic_name(top_words), top_words)
    /\ n_idx' = n_idx + 1
    /\ npc' = IF n_idx + 1 = n_K THEN "listed" ELSE "naming"
    /\ UNCHANGED <<n_prog, n_K, feature_names, used_names, topic_names, crossVars,
                   notNamesVars>>

\* run_lda_from_db.py lines 171-172 and 199-200: the names are the keys of
\* the dict, and topic_index_to_name[topic_idx] is looked up for every
\* topic_idx in range(n_topics); a missing index is a KeyError nothing catches
ScriptIndexToName ==
    /\ n_prog = "run_lda_from_db"
    /\ npc = "listed"
    /\ topic_names' = DictKeys(topics_dict)
    /\ npc' = IF Len(topics_dict) < n_K THEN "crashed" ELSE "named"
    /\ UNCHANGED <<n_prog, n_K, feature_names, n_idx, used_names, topics_dict,
                   crossVars, notNamesVars>>

\* views.py lines 1186-1198: the cross-tabulation by topic index, re-keyed
\* by topic name, and the emotion_dist each topic's insights are made from
ApiEmotionDist ==
    /\ n_prog = "views"
    /\ npc = "named"
    /\ \E counts \in DominantCounts(n_K) :
        /\ dominant_counts' = counts
        /\ topic_emotion_dist' = RekeyByName(topic_names, counts, n_K)
        /\ emotion_dists' =
               [t \in 1..n_K |->
                   DictGetOr(RekeyByName(topic_names, counts, n_K), topic_names[t],
                             NoLabels)]
    /\ npc' = "crossed"
    /\ UNCHANGED <<n_prog, n_K, feature_names, n_idx, used_names, topic_names,
                   topics_dict, notNamesVars>>

\* run_lda_from_db.py lines 198-211: value_counts of the labels of the
\* documents of each topic index
ScriptEmotionDist ==
    /\ n_prog = "run_lda_from_db"
    /\ npc = "named"
    /\ \E counts \in DominantCounts(n_K) :
        /\ dominant_counts' = counts
        /\ emotion_dists' = [t \in 1..n_K |-> counts[t]]
    /\ npc' = "crossed"
    /\ UNCHANGED <<n_prog, n_K, feature_names, n_idx, used_names, topic_names,
                   topics_dict, topic_emotion_dist, notNamesVars>>

NextNames ==
    \/ ApiNameTopic \/ ScriptNameTopic \/ ScriptIndexToName
    \/ ApiEmotionDist \/ ScriptEmotionDist

SpecNames == InitNames /\ [][NextNames]_vars

(***************************************************************************)
(* Assigning each document its dominant topic.  A row of lda_output is the *)
(* document's topic distribution: K weights out of ProbGrid.               *)
(***************************************************************************)
MaxDocs == 2

ProbGrid == 3

\* the rows fit_transform returns: K probabilities that sum to 1
RECURSIVE SumTo(_, _)
SumTo(row, k) == IF k = 0 THEN 0 ELSE SumTo(row, k - 1) + row[k]

TopicRows(K) ==
    {[i \in 1..K |-> Rat(w[i], ProbGrid)] :
        w \in {v \in [1..K -> 0..ProbGrid] : SumTo(v, K) = ProbGrid}}

\* ndarray.max over a row: scan keeping the largest value seen
RECURSIVE row_max(_, _)
row_max(row, k) ==
    IF k = 1 THEN row[1]
    ELSE LET best == row_max(row, k - 1)
         IN  IF RLt(best, row[k]) THEN row[k] ELSE best

\* the scan of argmax that keeps the last of the largest values
RECURSIVE row_argmax_last(_, _)
row_argmax_last(row, k) ==
    IF k = 1 THEN 0
    ELSE LET best == row_argmax_last(row, k - 1)
         IN  IF RLe(row[best + 1], row[k]) THEN k - 1 ELSE best

\* ndarray.argmax over a row: the 0-based index of the first occurrence of
\* the maximum; a later value replaces the best one only when strictly larger
RECURSIVE row_argmax(_, _)
row_argmax(row, k) ==
    IF k = 1 THEN 0
    ELSE LET best == row_argmax(row, k - 1)
         IN  IF RLt(row[best + 1], row[k]) THEN k - 1 ELSE best

\* argmax that returns the last index of the maximum
argmax_last(row) == row_argmax_last(row, Len(row))

\* lda_output.argmax(axis=1), for one row
argmax(row) == row_argmax(row, Len(row))

AssignOthersIdle ==
    RowIdle /\ RankIdle /\ InsightIdle /\ RunIdle /\ NamesIdle /\ GenIdle /\ ConcIdle
        /\ LateIdle

notAssignVars == <<notPipeVars, namesVars, genVars, concVars, lateVars>>

InitAssign ==
    /\ \E K \in 3..MaxTopics : \E N \in 1..MaxDocs : lda_output \in [1..N -> TopicRows(K)]
    /\ dominant_topic = <<>>
    /\ topic_probability = <<>>
    /\ apc = "fitted"
    /\ AssignOthersIdle

\* views.py line 1179, run_lda_from_db.py line 167
AssignDominantTopic ==
    /\ apc = "fitted"
    /\ dominant_topic' =
           [d \in DOMAIN lda_output |-> argmax(lda_output[d])]
    /\ apc' = "argmax"
    /\ UNCHANGED <<lda_output, topic_probability, notAssignVars>>

\* views.py line 1180, run_lda_from_db.py line 168
AssignTopicProbability ==
    /\ apc = "argmax"
    /\ topic_probability' =
           [d \in DOMAIN lda_output |-> row_max(lda_output[d], Len(lda_output[d]))]
    /\ apc' = "done"
    /\ UNCHANGED <<lda_output, dominant_topic, notAssignVars>>

NextAssign == AssignDominantTopic \/ AssignTopicProbability

SpecAssign == InitAssign /\ [][NextAssign]_vars

(***************************************************************************)
(* The insight step of topic_modeling_lda.py with the external generator,  *)
(* for one topic, run twice on the same keywords and distribution.  What   *)
(* from_pretrained and model.generate do is the environment's choice: they *)
(* return, raise, or never return; generate samples its text.              *)
(***************************************************************************)
GenVocabulary == {"teaching", "exam", "room"}

GenKeywordLists ==
    UNION {{w \in [1..n -> GenVocabulary] : \A i, j \in 1..n : i # j => w[i] # w[j]} :
              n \in 1..MaxKw}

CallOutcomes == {"returns", "raises", "never returns"}

\* what do_sample=True can decode to, after _clean_insight_improved
SampledTexts == {"sampled text a", "sampled text b"}

Insight(category, priority, suggestion) ==
    [category |-> category, priority |-> priority, suggestion |-> suggestion]

\* generate_lda_insights with the suggestion its template gives: the text is
\* a function of the category, the keywords and the percentages
RuleInsights(keywords, emotion_dist) ==
    LET insights == generate_lda_insights(OFFLINE_N_TOPICS - 1, keywords, emotion_dist)
    IN  [i \in 1..Len(insights) |->
            Insight(insights[i].category, insights[i].priority, "lda-based template")]

\* insight_generator.py line 126
ReviewFeedbackText(keywords) == "Review feedback related to " \o keywords[1]

GenOthersIdle ==
    RowIdle /\ RankIdle /\ InsightIdle /\ RunIdle /\ NamesIdle /\ AssignIdle /\ ConcIdle
        /\ LateIdle

notGenVars == <<notPipeVars, namesVars, assignVars, concVars, lateVars>>

InitGen ==
    /\ g_keywords \in GenKeywordLists
    /\ g_dist \in LabelCounts
    /\ gpc = [r \in Runs |-> "load"]
    /\ g_failed = [r \in Runs |-> "none"]
    /\ g_insights = [r \in Runs |-> <<>>]
    /\ g_method = [r \in Runs |-> "none"]
    /\ GenOthersIdle

\* topic_modeling_lda.py lines 443-449 and 469-472, insight_generator.py
\* lines 29-53: _load_model re-raises, and the script's except clause turns
\* to the LDA-based insights
GenLoad(r) ==
    /\ gpc[r] = "load"
    /\ \E result \in CallOutcomes :
        /\ gpc' = [gpc EXCEPT ![r] = CASE result = "returns" -> "batch"
                                       [] result = "raises" -> "fallback"
                                       [] result = "never returns" -> "hung"]
        /\ g_failed' = [g_failed EXCEPT ![r] = IF result = "raises" THEN "load" ELSE @]
    /\ UNCHANGED <<g_keywords, g_dist, g_insights, g_method, notGenVars>>

\* insight_generator.py lines 223-240 with generate_insight, lines 69-126:
\* one category of the topic
GenInsight(r) ==
    /\ gpc[r] = "batch"
    /\ Len(g_insights[r]) < Len(_determine_categories(g_keywords))
    /\ LET category == _determine_categories(g_keywords)[Len(g_insights[r]) + 1]
           emit(text) ==
               g_insights' = [g_insights EXCEPT ![r] =
                   Append(@, Insight(CategoryTitle(category),
                                     _determine_priority(g_dist), text))]
       IN  IF TotalOf(g_dist) = 0
           THEN /\ emit("Students provided feedback on this topic.")
                /\ UNCHANGED <<gpc, g_failed>>
           ELSE \E result \in CallOutcomes :
                   CASE result = "returns" ->
                            /\ \E text \in SampledTexts : emit(text)
                            /\ UNCHANGED <<gpc, g_failed>>
                     [] result = "raises" ->
                            /\ emit(ReviewFeedbackText(g_keywords))
                            /\ g_failed' = [g_failed EXCEPT ![r] = "insight"]
                            /\ UNCHANGED gpc
                     [] result = "never returns" ->
                            /\ gpc' = [gpc EXCEPT ![r] = "hung"]
                            /\ UNCHANGED <<g_insights, g_failed>>
    /\ UNCHANGED <<g_keywords, g_dist, g_method, notGenVars>>

\* topic_modeling_lda.py lines 450-468 and 508-519: the batch returned
GenBatchEnd(r) ==
    /\ gpc[r] = "batch"
    /\ Len(g_insights[r]) = Len(_determine_categories(g_keywords))
    /\ g_method' = [g_method EXCEPT ![r] = "GPT-Neo"]
    /\ gpc' = [gpc EXCEPT ![r] = "done"]
    /\ UNCHANGED <<g_keywords, g_dist, g_failed, g_insights, notGenVars>>

\* topic_modeling_lda.py lines 475-498 and 508-519
GenFallback(r) ==
    /\ gpc[r] = "fallback"
    /\ g_insights' = [g_insights EXCEPT ![r] = RuleInsights(g_keywords, g_dist)]
    /\ g_method' = [g_method EXCEPT ![r] = "LDA-based topic-emotion analysis"]
    /\ gpc' = [gpc EXCEPT ![r] = "done"]
    /\ UNCHANGED <<g_keywords, g_dist, g_failed, notGenVars>>

GenStep(r) == GenLoad(r) \/ GenInsight(r) \/ GenBatchEnd(r) \/ GenFallback(r)

NextGen == \E r \in Runs : GenStep(r)

SpecGen == InitGen /\ [][NextGen]_vars

\* each run is a process of its own: a run that can take a step takes it
SpecGenLive == SpecGen /\ \A r \in Runs : WF_vars(GenStep(r))

(***************************************************************************)
(* Two background runs.  submit_feedback and trigger_topic_modeling each   *)
(* start run_topic_modeling_task.py, which runs run_lda_from_db.py with    *)
(* the server directory as its working directory; feedback keeps being     *)
(* submitted meanwhile.                                                    *)
(***************************************************************************)
ConcOthersIdle ==
    RowIdle /\ RankIdle /\ InsightIdle /\ RunIdle /\ NamesIdle /\ AssignIdle /\ GenIdle
        /\ LateIdle

notConcVars == <<notPipeVars, namesVars, assignVars, genVars, lateVars>>

\* both triggers have seen at least 10 submitted feedbacks
InitConc ==
    /\ db_count \in 10..MaxFeedbacks
    /\ insights_file \in {"absent", "old", "recent"}
    /\ cpc = [r \in Runs |-> "task"]
    /\ snapshot = [r \in Runs |-> 0]
    /\ files = [f \in FileNames |-> 0]
    /\ ConcOthersIdle

\* views.py submit_feedback: one more submitted feedback
SubmitFeedback ==
    /\ db_count < MaxFeedbacks
    /\ db_count' = db_count + 1
    /\ UNCHANGED <<insights_file, cpc, snapshot, files, notConcVars>>

\* run_topic_modeling_task.py lines 21-46 and 56-77
TaskShouldRun(r) ==
    /\ cpc[r] = "task"
    /\ cpc' = [cpc EXCEPT ![r] =
                  IF db_count < 10 \/ insights_file = "recent" THEN "skipped" ELSE "load"]
    /\ UNCHANGED <<db_count, insights_file, snapshot, files, notConcVars>>

\* run_lda_from_db.py lines 28-68: the run's snapshot of the feedbacks
ConcLoad(r) ==
    /\ cpc[r] = "load"
    /\ snapshot' = [snapshot EXCEPT ![r] = db_count]
    /\ cpc' = [cpc EXCEPT ![r] = IF db_count < 10 THEN "exit 1" ELSE "keywords"]
    /\ UNCHANGED <<db_count, insights_file, files, notConcVars>>

\* run_lda_from_db.py lines 175-183
WriteTopicsKeywords(r) ==
    /\ cpc[r] = "keywords"
    /\ files' = [files EXCEPT !["topics_keywords.csv"] = snapshot[r]]
    /\ cpc' = [cpc EXCEPT ![r] = "feedback"]
    /\ UNCHANGED <<db_count, insights_file, snapshot, notConcVars>>

\* run_lda_from_db.py lines 187-189
WriteFeedbackWithTopics(r) ==
    /\ cpc[r] = "feedback"
    /\ files' = [files EXCEPT !["feedback_with_topics.csv"] = snapshot[r]]
    /\ cpc' = [cpc EXCEPT ![r] = "insights"]
    /\ UNCHANGED <<db_count, insights_file, snapshot, notConcVars>>

\* run_lda_from_db.py lines 198-211 and 527-531: the lookup of line 200 or
\* the int() of line 529 raises on the generated topic names, so the run
\* ends before lda_insights.json is written
ConcInsights(r) ==
    /\ cpc[r] = "insights"
    /\ cpc' = [cpc EXCEPT ![r] = "traceback"]
    /\ UNCHANGED <<db_count, insights_file, snapshot, files, notConcVars>>

ConcStep(r) ==
    \/ TaskShouldRun(r) \/ ConcLoad(r) \/ WriteTopicsKeywords(r)
    \/ WriteFeedbackWithTopics(r) \/ ConcInsights(r)

NextConc == SubmitFeedback \/ \E r \in Runs : ConcStep(r)

SpecConc == InitConc /\ [][NextConc]_vars

(***************************************************************************)
(* The triggers.  submit_feedback creates the feedback, then counts the    *)
(* submitted feedbacks and starts run_topic_modeling_task.py at 10 and at  *)
(* the multiples of 5 above; trigger_topic_modeling starts it for an admin *)
(* at 10 or more.  The task asks should_run_topic_modeling and then runs   *)
(* run_lda_from_db.py.  Requests are served concurrently, and the clock    *)
(* is read as whether 10 minutes have passed.                              *)
(***************************************************************************)
\* the state of the sections before the triggers
EarlyIdle ==
    /\ RowIdle /\ RankIdle /\ InsightIdle /\ RunIdle
    /\ NamesIdle /\ AssignIdle /\ GenIdle /\ ConcIdle

earlyVars == <<notPipeVars, namesVars, assignVars, genVars, concVars>>

TrigOthersIdle == EarlyIdle /\ BatchIdle /\ SingleIdle

notTrigVars == <<earlyVars, batchVars, singleVars>>

\* counts just below the two first thresholds
StartCounts == {8, 9, 13, 14}

InitTrigger ==
    /\ db_submitted \in StartCounts
    /\ rq = [r \in Requests |-> "idle"]
    /\ made = [r \in Requests |-> 0]
    /\ total_feedbacks = [r \in Requests |-> 0]
    /\ admin_rq = "idle"
    /\ task = [t \in TaskIds |-> "none"]
    /\ \/ lda_insights_json = "absent" /\ written_at_count = 0
       \/ /\ lda_insights_json \in {"recent", "old"}
          /\ written_at_count \in 10 .. db_submitted
    /\ launched = {}
    /\ TrigOthersIdle

\* views.py line 339: Feedback.objects.create
SubmitCreate(r) ==
    /\ rq[r] = "idle"
    /\ db_submitted' = db_submitted + 1
    /\ made' = [made EXCEPT ![r] = db_submitted + 1]
    /\ rq' = [rq EXCEPT ![r] = "created"]
    /\ UNCHANGED <<total_feedbacks, admin_rq, task, lda_insights_json, written_at_count,
                   launched, notTrigVars>>

\* views.py lines 420-431
should_run(total) == (total = 10) \/ (total > 10 /\ total % 5 = 0)

\* views.py lines 420-482: the count, the decision, the thread that starts
\* the task's process, the response
SubmitTrigger(r) ==
    /\ rq[r] = "created"
    /\ total_feedbacks' = [total_feedbacks EXCEPT ![r] = db_submitted]
    /\ task' = [task EXCEPT ![r] = IF should_run(db_submitted) THEN "started" ELSE @]
    /\ rq' = [rq EXCEPT ![r] = "responded"]
    /\ UNCHANGED <<db_submitted, made, admin_rq, lda_insights_json, written_at_count,
                   launched, notTrigVars>>

\* views.py lines 1226-1290, for an admin
TriggerTopicModeling ==
    /\ admin_rq = "idle"
    /\ IF db_submitted < 10
       THEN admin_rq' = "400" /\ UNCHANGED task
       ELSE admin_rq' = "started" /\ task' = [task EXCEPT ![0] = "started"]
    /\ UNCHANGED <<db_submitted, rq, made, total_feedbacks, lda_insights_json,
                   written_at_count, launched, notTrigVars>>

\* run_topic_modeling_task.py lines 21-46
should_run_topic_modeling(feedback_count, insights_file_state) ==
    IF feedback_count < 10 THEN FALSE
    ELSE IF insights_file_state = "recent" THEN FALSE
    ELSE TRUE

\* run_topic_modeling_task.py lines 49-77
RunTopicModelingTask(t) ==
    /\ task[t] = "started"
    /\ IF should_run_topic_modeling(db_submitted, lda_insights_json)
       THEN task' = [task EXCEPT ![t] = "lda"] /\ launched' = launched \cup {t}
       ELSE task' = [task EXCEPT ![t] = "skipped"] /\ UNCHANGED launched
    /\ UNCHANGED <<db_submitted, rq, made, total_feedbacks, admin_rq, lda_insights_json,
                   written_at_count, notTrigVars>>

\* run_lda_from_db.py to its end: the run stops at line 200 or 529, before
\* line 554 writes lda_insights.json; run_topic_modeling_task.py lines 86-92
LdaScriptEnds(t) ==
    /\ task[t] = "lda"
    /\ task' = [task EXCEPT ![t] = "error"]
    /\ UNCHANGED <<db_submitted, rq, made, total_feedbacks, admin_rq, lda_insights_json,
                   written_at_count, launched, notTrigVars>>

\* 10 minutes pass with no task launching the script
TenMinutesPass ==
    /\ launched # {} \/ lda_insights_json = "recent"
    /\ launched' = {}
    /\ lda_insights_json' = IF lda_insights_json = "recent" THEN "old" ELSE lda_insights_json
    /\ UNCHANGED <<db_submitted, rq, made, total_feedbacks, admin_rq, task,
                   written_at_count, notTrigVars>>

NextTrigger ==
    \/ \E r \in Requests : SubmitCreate(r)
    \/ \E r \in Requests : SubmitTrigger(r)
    \/ TriggerTopicModeling
    \/ \E t \in TaskIds : RunTopicModelingTask(t)
    \/ \E t \in TaskIds : LdaScriptEnds(t)
    \/ TenMinutesPass

SpecTrigger == InitTrigger /\ [][NextTrigger]_vars

(***************************************************************************)
(* One call of InsightGenerator.generate_insights_batch on a list of       *)
(* topics.  generate_insight returns a text, also when the model raises;   *)
(* the call of model.generate inside it may never return.                  *)
(***************************************************************************)
MaxBatchKw == 3

BatchVocabulary == {"teaching", "exam", "content", "room"}

BatchKeywordLists ==
    UNION {{w \in [1 .. n -> BatchVocabulary] : \A i, j \in 1 .. n : i # j => w[i] # w[j]} :
              n \in 1 .. MaxBatchKw}

\* no document, or four of which 0 to 4 are disappointed: negative% is 0,
\* 25, 50, 75 or 100
BatchDists ==
    {NoLabels} \cup
    {[e \in Labels |-> CASE e = "disappointment" -> k
                          [] e = "joy" -> 4 - k
                          [] OTHER -> 0] : k \in 0 .. 4}

BatchSizes == {1, 2}

\* 'Topic 1', 'Topic 2', ... in the order of the list
TopicLabel(i) == <<"Topic", i>>

\* the list of n topics with the given keywords and distributions
BatchInput(n, kw, ed) ==
    [i \in 1 .. n |-> [topic |-> TopicLabel(i), keywords |-> kw[i],
                       emotion_distribution |-> ed[i]]]

BatchOthersIdle == EarlyIdle /\ TrigIdle /\ SingleIdle

notBatchVars == <<earlyVars, trigVars, singleVars>>

InitBatch ==
    /\ \E n \in BatchSizes :
         \E kw \in [1 .. n -> BatchKeywordLists], ed \in [1 .. n -> BatchDists] :
            topics_data = BatchInput(n, kw, ed)
    /\ all_insights = <<>>
    /\ bpc = "loop"
    /\ BatchOthersIdle

\* insight_generator.py lines 212-245: one turn of the loop over topics_data
BatchTopic ==
    /\ bpc = "loop"
    /\ Len(all_insights) < Len(topics_data)
    /\ LET topic_info == topics_data[Len(all_insights) + 1]
       IN  \E result \in {"returns", "never returns"} :
             IF result = "never returns" /\ TotalOf(topic_info.emotion_distribution) > 0
             THEN bpc' = "hung" /\ UNCHANGED all_insights
             ELSE /\ all_insights' =
                        Append(all_insights,
                               [topic |-> topic_info.topic,
                                insights |->
                                    generate_insights_batch(topic_info.keywords,
                                        topic_info.emotion_distribution)])
                  /\ UNCHANGED bpc
    /\ UNCHANGED <<topics_data, notBatchVars>>

\* insight_generator.py line 247
BatchReturn ==
    /\ bpc = "loop"
    /\ Len(all_insights) = Len(topics_data)
    /\ bpc' = "returned"
    /\ UNCHANGED <<topics_data, all_insights, notBatchVars>>

NextBatch == BatchTopic \/ BatchReturn

SpecBatch == InitBatch /\ [][NextBatch]_vars

(***************************************************************************)
(* The generator singleton: calls of InsightGenerator() and of             *)
(* get_insight_generator(), one after the other, in one process.  What the *)
(* statements of _load_model do is the environment's choice: each of the   *)
(* two from_pretrained calls and the move to the GPU returns or raises.    *)
(***************************************************************************)
MaxCalls == 3

SingleOthersIdle == EarlyIdle /\ TrigIdle /\ BatchIdle

notSingleVars == <<earlyVars, trigVars, batchVars>>

InitSingle ==
    /\ cuda_available \in BOOLEAN
    /\ n_objects = 0
    /\ cls_instance = 0
    /\ self_tokenizer = "None"
    /\ self_model = "None"
    /\ pad_token_set = FALSE
    /\ _insight_generator = 0
    /\ calls = <<>>
    /\ SingleOthersIdle

\* where _load_model stops: it returns, or one of its statements raises
LoadOutcomes ==
    {"returns", "tokenizer raises", "model raises"}
        \cup (IF cuda_available THEN {"to cuda raises"} ELSE {})

\* insight_generator.py lines 29-53, stopping as `load` says
_load_model(load) ==
    /\ self_tokenizer' = IF load = "tokenizer raises" THEN self_tokenizer ELSE "loaded"
    /\ self_model' =
          CASE load \in {"tokenizer raises", "model raises"} -> self_model
            [] load = "to cuda raises" -> "on cpu"
            [] load = "returns" -> IF cuda_available THEN "on cuda" ELSE "on cpu"
    /\ pad_token_set' =
          IF load \in {"to cuda raises", "returns"} THEN TRUE ELSE pad_token_set

\* insight_generator.py lines 20-27: InsightGenerator(), called by `fn`;
\* the call returns the object unless the load raised
Construct(fn) ==
    LET obj == IF cls_instance = 0 THEN n_objects + 1 ELSE cls_instance
    IN  /\ cls_instance' = obj
        /\ n_objects' = IF cls_instance = 0 THEN n_objects + 1 ELSE n_objects
        /\ IF self_model = "None"
           THEN \E load \in LoadOutcomes :
                  /\ _load_model(load)
                  /\ calls' = Append(calls,
                         [fn |-> fn, load |-> load,
                          result |-> IF load = "returns" THEN obj ELSE 0])
                  /\ _insight_generator' =
                         IF fn = "get_insight_generator" /\ load = "returns"
                         THEN obj ELSE _insight_generator
           ELSE /\ UNCHANGED <<self_tokenizer, self_model, pad_token_set>>
                /\ calls' = Append(calls, [fn |-> fn, load |-> "no load", result |-> obj])
                /\ _insight_generator' =
                       IF fn = "get_insight_generator" THEN obj ELSE _insight_generator

\* a call of InsightGenerator()
CallInsightGenerator ==
    /\ Len(calls) < MaxCalls
    /\ Construct("InsightGenerator")
    /\ UNCHANGED <<cuda_available, notSingleVars>>

\* insight_generator.py lines 311-316
CallGetInsightGenerator ==
    /\ Len(calls) < MaxCalls
    /\ IF _insight_generator = 0
       THEN Construct("get_insight_generator")
       ELSE /\ calls' = Append(calls, [fn |-> "get_insight_generator", load |-> "no load",
                                       result |-> _insight_generator])
            /\ UNCHANGED <<n_objects, cls_instance, self_tokenizer, self_model,
                           pad_token_set, _insight_generator>>
    /\ UNCHANGED <<cuda_available, notSingleVars>>

NextSingle == CallInsightGenerator \/ CallGetInsightGenerator

SpecSingle == InitSingle /\ [][NextSingle]_vars

(***************************************************************************)
(* generate_topic_name applied to one list of top words.                   *)
(***************************************************************************)
\* seq with x put at position p
InsertAt(seq, p, x) == SubSeq(seq, 1, p - 1) \o <<x>> \o SubSeq(seq, p, Len(seq))

\* lists of 11 top words: the fillers and one term of the vocabulary, first,
\* tenth or eleventh
LongKeywordLists ==
    {InsertAt(Fillers, p, v) : p \in {1, 10, 11}, v \in Vocabulary}

InitTopicName ==
    /\ prog = "generate_topic_name"
    /\ t_keywords \in KeywordLists \cup LongKeywordLists
    /\ t_dist = [e \in Labels |-> 0]
    /\ t_idx = 0
    /\ t_name = <<>>
    /\ ipc = "topic"
    /\ t_insights = <<>>
    /\ error = "none"
    /\ RowRankIdle
    /\ RunIdle
    /\ PipeIdle

\* views.py lines 1125-1150 and 1160, run_lda_from_db.py lines 115-146 and 156
ApplyTopicName ==
    /\ prog = "generate_topic_name"
    /\ ipc = "topic"
    /\ t_name' = generate_topic_name(t_keywords)
    /\ ipc' = "done"
    /\ UNCHANGED <<prog, t_idx, t_keywords, t_dist, t_insights, error,
                   rowVars, rankVars, runVars, pipeVars>>

NextTopicName == ApplyTopicName

SpecTopicName == InitTopicName /\ [][NextTopicName]_vars

(***************************************************************************)
(* Properties of the Score Adjuster                                        *)
(***************************************************************************)
SZero == [p |-> RInt(0), q |-> RInt(0), t |-> RInt(0)]

SOfRat(r) == [p |-> r, q |-> RInt(0), t |-> RInt(0)]

\* |v - r| for a symbolic v and a rational r
SDist(v, r) ==
    LET x == [p |-> RSub(v.p, r), q |-> v.q, t |-> v.t]
    IN  IF SCmp(x, SZero) < 0
        THEN [p |-> RSub(RInt(0), x.p), q |-> RSub(RInt(0), x.q), t |-> x.t]
        ELSE x

\* every comparison the model makes is decided at this SqrtScale
SqrtScaleSuffices ==
    /\ \A i, j \in 1 .. Len(adjusted_scores) :
           SCmp(adjusted_scores[i].Confidence_Adjusted_Score,
                adjusted_scores[j].Confidence_Adjusted_Score) \in {-1, 0, 1}
    /\ (row_out # NoRow /\ row_out2 # NoRow) =>
           /\ SCmp(row_out.Confidence_Adjusted_Score,
                   row_out2.Confidence_Adjusted_Score) \in {-1, 0, 1}
           /\ SCmp(SDist(row_out.Confidence_Adjusted_Score, in_score),
                   SDist(row_out2.Confidence_Adjusted_Score, in_gm)) \in {-1, 0, 1}

IsGroupA(r) == r.Raw_Score = Rat(18, 10) /\ r.Feedback_Count = 1

IsGroupB(r) == r.Raw_Score = Rat(3, 10) /\ r.Feedback_Count = 50

\* C1 (as claimed): with C = 10 and global_mean = 0.3, group A (raw 1.8, one
\* sample) has no greater confidence_adjusted_score than group B (raw 0.3, 50
\* samples) and does not stand above B in the ranking.
C1_SmallSampleNotAboveLarge ==
    (spc = "done" /\ GLOBAL_MEAN(scores_df) = Rat(3, 10)) =>
        \A i, j \in 1 .. Len(adjusted_df_sorted) :
            (IsGroupA(adjusted_df_sorted[i]) /\ IsGroupB(adjusted_df_sorted[j])) =>
                /\ SCmp(adjusted_df_sorted[i].Confidence_Adjusted_Score,
                        adjusted_df_sorted[j].Confidence_Adjusted_Score) \in {-1, 0}
                /\ j < i

\* C2 (as claimed): of two rows with the same raw score, the one with more
\* samples has |adjusted - raw| <= the other's |adjusted - global_mean|.
C2_LargerSampleCloser ==
    (row_out # NoRow /\ row_out2 # NoRow /\ in_count > in_count2) =>
        SCmp(SDist(row_out.Confidence_Adjusted_Score, in_score),
             SDist(row_out2.Confidence_Adjusted_Score, in_gm)) \in {-1, 0}

\* the rounding allowance of the float comparison: 4 * 2^-MantBits
FlTolerance == Rat(4, Pow2(MantBits))

\* C2 (amended): the same, for rows that both have at least
\* MINIMUM_FEEDBACK_THRESHOLD samples (size_weight = 1 for both): it holds of
\* the exact values, and of the floats computed up to FlTolerance.
C2_LargerSampleCloserAtFullWeight ==
    (/\ row_out # NoRow /\ row_out2 # NoRow
     /\ in_count > in_count2
     /\ in_count2 >= MINIMUM_FEEDBACK_THRESHOLD) =>
        /\ SCmp(SDist(row_out.Confidence_Adjusted_Score, in_score),
                SDist(row_out2.Confidence_Adjusted_Score, in_gm)) \in {-1, 0}
        /\ RLe(RAbs(RSub(row_out.Confidence_Adjusted_Score_fl, FlRound(in_score))),
               RAdd(RAbs(RSub(row_out2.Confidence_Adjusted_Score_fl, FlRound(in_gm))),
                    FlTolerance))

C2_Witness ==
    /\ row_out # NoRow /\ row_out2 # NoRow
    /\ in_count = 50 /\ in_count2 = 10
    /\ in_score = Rat(18, 10) /\ in_gm = Rat(3, 10)
    /\ SCmp(SDist(row_out.Confidence_Adjusted_Score, in_score),
            SDist(row_out2.Confidence_Adjusted_Score, in_gm)) = -1

CodesOf(df) == {df[i].Course_code : i \in 1 .. Len(df)}

\* C3: the ranking holds every input group exactly once and is in descending
\* order of confidence_adjusted_score.
C3_RankingIsSortedPermutation ==
    spc \in {"sort", "done"} =>
        /\ Len(adjusted_df_sorted) = Len(scores_df)
        /\ CodesOf(adjusted_df_sorted) = CodesOf(scores_df)
        /\ \A i \in 1 .. Len(adjusted_df_sorted) :
               \E k \in 1 .. Len(scores_df) :
                   /\ adjusted_df_sorted[i].Course_code = scores_df[k].Course_code
                   /\ adjusted_df_sorted[i].Raw_Score = scores_df[k].Average_Sentiment_Score
                   /\ adjusted_df_sorted[i].Feedback_Count = scores_df[k].Feedback_Count
        /\ \A i \in 1 .. Len(adjusted_df_sorted) - 1 :
               SCmp(adjusted_df_sorted[i].Confidence_Adjusted_Score,
                    adjusted_df_sorted[i + 1].Confidence_Adjusted_Score) \in {0, 1}

C3_Witness ==
    /\ spc = "done"
    /\ Len(adjusted_df_sorted) = 3
    /\ adjusted_df_sorted[1].Course_code = 3
    /\ adjusted_df_sorted[3].Course_code = 1
    /\ SCmp(adjusted_df_sorted[1].Confidence_Adjusted_Score,
            adjusted_df_sorted[2].Confidence_Adjusted_Score) = 1

\* C4 (as claimed): a run on the same rows in another file order writes the
\* same ranking, row for row, ties included.
C4_RankingIndependentOfFileOrder ==
    Len(csv_history) = 2 => csv_history[1] = csv_history[2]

\* C5 (as claimed): a row with Feedback_Count = 0 is rated Low and its
\* Bayesian_Score, as computed, equals GLOBAL_MEAN exactly.
C5_ZeroCountIsLowAndExactlyGlobalMean ==
    (row_out # NoRow /\ in_count = 0) =>
        /\ row_out.Reliability_Rating = "Low"
        /\ row_out.Bayesian_Score = in_gm
        /\ row_out.Bayesian_Score_fl = FlRound(in_gm)

\* C6: the reliability tier is High for 10 or more samples, Medium for 5 to
\* 9, Low below 5, whatever the raw score and the global mean.
C6_TierByCountOnly ==
    /\ row_out # NoRow =>
           row_out.Reliability_Rating =
               CASE in_count >= 10 -> "High"
                 [] in_count >= 5 /\ in_count <= 9 -> "Medium"
                 [] in_count < 5 -> "Low"
    /\ row_out2 # NoRow =>
           row_out2.Reliability_Rating =
               CASE in_count2 >= 10 -> "High"
                 [] in_count2 >= 5 /\ in_count2 <= 9 -> "Medium"
                 [] in_count2 < 5 -> "Low"

C6_Witness ==
    /\ row_out # NoRow /\ row_out2 # NoRow
    /\ in_count = 5 /\ row_out.Reliability_Rating = "Medium"
    /\ in_count2 = 4 /\ row_out2.Reliability_Rating = "Low"
    /\ in_score = Rat(-2, 1)

RMax(x, y) == IF RLe(x, y) THEN y ELSE x

\* lo <= v <= hi for the two ends in either order
Between(v, a, b) == RLe(RMin(a, b), v) /\ RLe(v, RMax(a, b))

\* the claim of C27 on exact values: the Bayesian score of either row lies
\* between the global mean and the raw score, and the row with more samples
\* is no farther from the raw score
C27_Exact ==
    /\ row_out # NoRow => Between(row_out.Bayesian_Score, in_gm, in_score)
    /\ (row_out # NoRow /\ row_out2 # NoRow /\ in_count > in_count2) =>
          RLe(RAbs(RSub(row_out.Bayesian_Score, in_score)),
              RAbs(RSub(row_out2.Bayesian_Score, in_score)))

\* C27 (as claimed): bayesian_score lies in the closed interval between
\* global_mean and raw_score, and |bayesian_score - raw_score| does not grow
\* with the sample count; of the exact values and of the floats the script
\* computes from the float inputs
C27_BayesianBetweenMeanAndRaw ==
    /\ C27_Exact
    /\ row_out # NoRow =>
          Between(row_out.Bayesian_Score_fl, FlRound(in_gm), FlRound(in_score))
    /\ (row_out # NoRow /\ row_out2 # NoRow /\ in_count > in_count2) =>
          RLe(RAbs(RSub(row_out.Bayesian_Score_fl, FlRound(in_score))),
              RAbs(RSub(row_out2.Bayesian_Score_fl, FlRound(in_score))))

\* the claim of C28 on exact values
C28_Exact ==
    row_out # NoRow =>
        /\ in_count = 0 =>
              /\ row_out.Size_Weight_Sq = RInt(0)
              /\ SCmp(row_out.Confidence_Adjusted_Score,
                      SOfRat(RMul(Rat(1, 2), in_gm))) = 0
        /\ in_count >= 10 =>
              /\ row_out.Size_Weight_Sq = RInt(1)
              /\ SCmp(row_out.Confidence_Adjusted_Score,
                      SOfRat(RAdd(RMul(Rat(1, 2), row_out.Bayesian_Score),
                                  RMul(Rat(1, 2), in_score)))) = 0

\* C28 (as claimed): with no sample size_weight is 0 and the adjusted score
\* is half the global mean whatever the raw score; with 10 samples or more
\* size_weight is 1 and the adjusted score is half the Bayesian score plus
\* half the raw score; of the exact values and of the floats computed
C28_WeightAtZeroAndAtFull ==
    /\ C28_Exact
    /\ row_out # NoRow =>
          /\ in_count = 0 =>
                row_out.Confidence_Adjusted_Score_fl = FlMul(Rat(1, 2), FlRound(in_gm))
          /\ in_count >= 10 =>
                row_out.Confidence_Adjusted_Score_fl =
                    FlAdd(FlMul(row_out.Bayesian_Score_fl, Rat(1, 2)),
                          FlMul(FlRound(in_score), Rat(1, 2)))

(***************************************************************************)
(* Properties of the insight step and of the run                           *)
(***************************************************************************)
StepOver == ipc \in {"done", "crashed"}

\* C7 (as claimed): for every topic, whatever its name, keywords and emotion
\* distribution, the insight step completes and stores a non-empty list.
C7_InsightStepCompletesNonEmpty ==
    StepOver => (ipc = "done" /\ t_insights # <<>>)

\* C8 (as claimed): for a topic without documents (empty distribution) the
\* insight engine, when it returns, returns exactly one insight, of category
\* "Overall Performance", whatever the keywords.
C8_NoDocumentsGivesOneOverallPerformance ==
    (ipc = "done" /\ TotalOf(t_dist) = 0) =>
        /\ Len(t_insights) = 1
        /\ t_insights[1].category = "Overall Performance"

TeachingOrExplain == AnyIn({"teaching", "explain"}, KeywordSet(t_keywords, 15))

\* C9: when the keywords hold "teaching" or "explain" and negative% is above
\* 40 (60 in the scenario), generate_quality_insights returns an insight of
\* category "Teaching Effectiveness" and priority "high".
C9_TeachingHighWhenNegative ==
    (/\ prog = "generate_quality_insights" /\ ipc = "done"
     /\ TeachingOrExplain
     /\ TotalOf(t_dist) > 0
     /\ Gt(Negative(Percentages(t_dist)), 40)) =>
        \E i \in 1 .. Len(t_insights) :
            t_insights[i] = Ins("Teaching Effectiveness", "high")

C9_Witness ==
    /\ prog = "generate_quality_insights" /\ ipc = "done"
    /\ t_keywords = <<"room", "explain">>
    /\ TotalOf(t_dist) = 5
    /\ Negative(Percentages(t_dist)) = RInt(60)
    /\ t_insights[1] = Ins("Teaching Effectiveness", "high")

InsufficientOutcomes ==
    {"error: need at least 10 feedbacks", "error: need at least 10 text feedbacks",
     "exit 1: need at least 10 feedbacks"}

\* C10 (as claimed): the model is fitted only on a corpus of at least 10
\* non-blank documents; a run that gets to its corpus check with 9 or fewer
\* ends in the insufficient-corpus error, without topics.
C10_FitNeedsTenDocuments ==
    /\ fitted => n_text >= 10
    /\ (rpc = "end" /\ n_text <= 9 /\ outcome # "403 forbidden") =>
           (outcome \in InsufficientOutcomes /\ ~fitted /\ n_topics = 0)

GenericFailures ==
    {"500 failed to generate", "traceback: ValueError", "traceback: KeyError"}

\* C16 (as claimed, for the two causes other than the corpus size, which
\* is C10's): a run on at least 10 documents whose vocabulary is empty or
\* whose corpus is degenerate ends in an error of its own, which is neither
\* a report, nor the generic failure, nor the insufficient-corpus error
C16_ErrorTellsTheCause ==
    (rpc = "end" /\ outcome # "403 forbidden" /\ n_text >= 10 /\ corpus_kind # "ok") =>
        outcome \notin {"topics"} \cup GenericFailures \cup InsufficientOutcomes

\* min(8, max(3, floor(N / 3)))
ClampedThird(N) ==
    LET third == N \div 3
    IN  IF third < 3 THEN 3 ELSE IF third > 8 THEN 8 ELSE third

\* C14 (as claimed): a run that fits topics on a corpus of N >= 10 documents
\* uses K = min(8, max(3, floor(N / 3))) topics, and 3 <= K <= 8
C14_TopicCountIsClampedThird ==
    (fitted /\ feedback_data >= 10) =>
        /\ n_topics = ClampedThird(feedback_data)
        /\ 3 <= n_topics /\ n_topics <= 8

(***************************************************************************)
(* Properties of the rule engine of run_lda_from_db.py                     *)
(***************************************************************************)
\* the rule families: the category of the insight, the terms the rule looks
\* for, the threshold negative% has to exceed for "high" and the one
\* positive% has to exceed for "low" (100 where the rule has no "low")
RuleFamilies ==
    {[category |-> "Teaching Effectiveness", high |-> 40, low |-> 50,
      words |-> {"teaching", "instructor", "explain", "learning", "understand", "method"}],
     [category |-> "Course Materials", high |-> 30, low |-> 45,
      words |-> {"materials", "assignments", "course", "provide", "resources", "content"}],
     [category |-> "Time Management & Workload", high |-> 35, low |-> 100,
      words |-> {"time", "deadlines", "schedule", "mindful", "workload", "pace"}],
     [category |-> "Student Engagement", high |-> 30, low |-> 45,
      words |-> {"interactive", "activities", "discussions", "experience", "participate",
                 "engage"}],
     [category |-> "Assessment & Evaluation", high |-> 35, low |-> 45,
      words |-> {"assessment", "exam", "test", "grading", "evaluation", "feedback",
                 "grades"}],
     [category |-> "Course Structure", high |-> 35, low |-> 50,
      words |-> {"course", "subject", "overall", "better", "need", "structure",
                 "organized"}],
     [category |-> "Communication & Support", high |-> 30, low |-> 100,
      words |-> {"communication", "questions", "help", "support", "available", "office",
                 "hours"}]}

RuleApplied ==
    /\ prog = "generate_quality_insights"
    /\ ipc = "done"
    /\ TotalOf(t_dist) > 0

FamilyMatches(f) == AnyIn(f.words, KeywordSet(t_keywords, 15))

\* the positions of t_insights that hold an insight of the category
InsightsOf(category) ==
    {i \in 1 .. Len(t_insights) : t_insights[i].category = category}

\* C21 (as claimed): for a topic with documents, every rule family a keyword
\* of the topic belongs to has exactly one insight of its category in the
\* output, whatever the percentages and the other families that match
C21_OneInsightPerMatchingFamily ==
    RuleApplied =>
        \A f \in RuleFamilies :
            FamilyMatches(f) => Cardinality(InsightsOf(f.category)) = 1

\* the priority the thresholds of a family give
ThresholdPriority(f, emotions) ==
    IF Gt(Negative(emotions), f.high) THEN "high"
    ELSE IF Gt(Positive(emotions), f.low) THEN "low"
    ELSE "medium"

\* C22 (as claimed): every insight of a rule family has priority "high" when
\* negative% is above the family's high threshold, otherwise "low" when
\* positive% is above its low threshold, otherwise "medium"
C22_PriorityFollowsThresholds ==
    RuleApplied =>
        \A f \in RuleFamilies : \A i \in InsightsOf(f.category) :
            t_insights[i].priority = ThresholdPriority(f, Percentages(t_dist))

NoFamilyMatches == \A f \in RuleFamilies : ~FamilyMatches(f)

PairwiseDistinct(seq) == \A i, j \in 1..Len(seq) : i # j => seq[i] # seq[j]

\* C11: once the topics of a run are named, there is one display name per
\* topic and the names are pairwise distinct, whatever the top-term lists
C11_DisplayNamesDistinct ==
    /\ npc # "crashed"
    /\ npc = "named" => Len(topic_names) = n_K /\ PairwiseDistinct(topic_names)

\* sum of the percentages count / total * 100 of a distribution
PercentageSum(emotion_dist) ==
    LET emotions == Percentages(emotion_dist)
    IN  RAdd(emotions["joy"], RAdd(emotions["satisfaction"], RAdd(emotions["acceptance"],
            RAdd(emotions["boredom"], emotions["disappointment"]))))

\* C12: a topic with at least one assigned document has emotion percentages
\* that sum to 100 within 0.5, and a topic with no assigned document has an
\* empty emotion distribution
C12_PercentagesSumOrEmpty ==
    npc = "crossed" =>
        \A t \in 1..n_K :
            IF TotalOf(dominant_counts[t]) >= 1
            THEN /\ TotalOf(emotion_dists[t]) > 0
                 /\ RLe(RAbs(RSub(PercentageSum(emotion_dists[t]), RInt(100))), Rat(1, 2))
            ELSE TotalOf(emotion_dists[t]) = 0

\* the documents counted in the first k distributions
RECURSIVE SumOfTotals(_, _)
SumOfTotals(dists, k) ==
    IF k = 0 THEN 0 ELSE SumOfTotals(dists, k - 1) + TotalOf(dists[k])

\* C26 (as claimed): a run that got as far as the per-topic data has one
\* entry per topic index, the entry of index t carries the name of t and the
\* emotion counts of exactly the documents assigned to t, and the counts of
\* the entries add up to the number of documents
C26_EntriesDescribeTheirOwnTopic ==
    npc = "crossed" =>
        /\ Len(topic_names) = n_K
        /\ Len(emotion_dists) = n_K
        /\ \A t \in 1 .. n_K : emotion_dists[t] = dominant_counts[t]
        /\ SumOfTotals(emotion_dists, n_K) = SumOfTotals(dominant_counts, n_K)

(***************************************************************************)
(* Properties of the topic assignment                                      *)
(***************************************************************************)
\* the 0-based indices at which a row attains its maximum
MaxIndices(row) ==
    {i \in 0..(Len(row) - 1) : \A j \in 1..Len(row) : RLe(row[j], row[i + 1])}

\* C13: every document's topic_index is the smallest index at which its row
\* attains its maximum, its confidence is that maximum, and the confidence
\* lies in [0, 1]
C13_ArgmaxFirstAndConfidence ==
    apc = "done" =>
        \A d \in DOMAIN lda_output :
            /\ dominant_topic[d] \in MaxIndices(lda_output[d])
            /\ \A i \in MaxIndices(lda_output[d]) : dominant_topic[d] <= i
            /\ topic_probability[d] = lda_output[d][dominant_topic[d] + 1]
            /\ RLe(RInt(0), topic_probability[d])
            /\ RLe(topic_probability[d], RInt(1))

\* a document whose row has its maximum at two indices has been assigned
C13_Witness ==
    /\ apc = "done"
    /\ \E d \in DOMAIN lda_output : Cardinality(MaxIndices(lda_output[d])) >= 2

(***************************************************************************)
(* Properties of the runs with the external generator                      *)
(***************************************************************************)
\* C15 (as claimed, for the insights of one topic): two runs on the same
\* keywords and emotion distribution, in both of which the generator loaded
\* and raised nothing, report the same categories, priorities and
\* suggestion texts
C15_SameInputSameReport ==
    (\A r \in Runs : gpc[r] = "done" /\ g_failed[r] = "none") =>
        /\ g_insights[1] = g_insights[2]
        /\ g_method[1] = g_method[2]

\* C17 (as claimed): when the generator raised, at load or in an insight,
\* the run still finishes and its insights are exactly those of the
\* rule-based engine for the same keywords and distribution
C17_GeneratorFailureGivesRuleInsights ==
    \A r \in Runs :
        (gpc[r] = "done" /\ g_failed[r] # "none") =>
            g_insights[r] = RuleInsights(g_keywords, g_dist)

\* C18 (as claimed): every run that uses the external generator eventually
\* finishes its insight generation, whatever the generator's calls do
C18_InsightGenerationFinishes ==
    \A r \in Runs : (gpc[r] = "load") ~> (gpc[r] = "done")

(***************************************************************************)
(* Properties of concurrent runs                                           *)
(***************************************************************************)
ConcEnded(r) == cpc[r] \in {"skipped", "exit 1", "traceback"}

\* the files a run has written so far
WrittenBy(r) ==
    CASE cpc[r] \in {"feedback"} -> {"topics_keywords.csv"}
      [] cpc[r] \in {"insights", "traceback"} -> FileNames
      [] OTHER -> {}

\* C19 (as claimed): when two concurrent runs are over, every file a run
\* wrote holds what that run computed from its own snapshot
C19_RunsLeaveTheirOwnResults ==
    (\A r \in Runs : ConcEnded(r)) =>
        \A r \in Runs : \A f \in WrittenBy(r) : files[f] = snapshot[r]

(***************************************************************************)
(* Properties of the triggers                                              *)
(***************************************************************************)
Threshold(c) == c = 10 \/ (c > 10 /\ c % 5 = 0)

\* C24 (as claimed): a request whose feedback brought the count to 10 or to
\* a multiple of 5 above 10 has, when it responds, started a task, and that
\* task does not skip the LDA script
C24_ThresholdCrossingRunsLda ==
    \A r \in Requests :
        (rq[r] = "responded" /\ Threshold(made[r])) =>
            /\ task[r] # "none"
            /\ task[r] # "skipped"

\* C25 (as claimed): a task launches the LDA script only with 10 or more
\* submitted feedbacks, an insights file that is absent or older than 10
\* minutes, and feedback submitted after that file was written; and no two
\* tasks launch it within 10 minutes
C25_LaunchOnlyUnderTheThreeConditions ==
    /\ \A t \in TaskIds :
          task[t] = "lda" =>
            /\ db_submitted >= 10
            /\ lda_insights_json # "recent"
            /\ lda_insights_json = "absent" \/ db_submitted > written_at_count
    /\ Cardinality(launched) <= 1

(***************************************************************************)
(* Properties of generate_insights_batch                                   *)
(***************************************************************************)
\* the families of _determine_categories: the title of the category and
\* the terms looked for
GeneratorFamilies ==
    {[title |-> "Teaching",
      words |-> {"teaching", "teach", "instructor", "explain", "lecture"}],
     [title |-> "Assessment", words |-> {"exam", "test", "grade", "assessment", "quiz"}],
     [title |-> "Materials",
      words |-> {"material", "book", "slide", "resource", "content"}],
     [title |-> "Engagement", words |-> {"engaging", "boring", "interesting", "attention"}],
     [title |-> "Communication",
      words |-> {"feedback", "communicate", "response", "question"}],
     [title |-> "Organization", words |-> {"organize", "structure", "plan", "syllabus"}]}

\* the families a keyword of the list belongs to
FamiliesOf(keywords) ==
    {f \in GeneratorFamilies : AnyIn(f.words, KeywordSet(keywords, Len(keywords)))}

ClaimedPriority(emotion_dist) ==
    IF TotalOf(emotion_dist) = 0 THEN "medium"
    ELSE IF Gt(Negative(Percentages(emotion_dist)), 50) THEN "high"
    ELSE IF Gt(Negative(Percentages(emotion_dist)), 25) THEN "medium"
    ELSE "low"

\* C29: a call that returns has one entry per topic, in the order of the
\* input; an entry holds one or two insights, of pairwise different
\* categories that the topic's keywords match ("General" alone when they
\* match none, two when they match two or more), each with priority high
\* when negative% > 50, medium when negative% > 25 or there is no document,
\* low otherwise
C29_BatchOneEntryPerTopic ==
    bpc = "returned" =>
        /\ Len(all_insights) = Len(topics_data)
        /\ \A i \in 1 .. Len(topics_data) :
              LET entry_i == all_insights[i]
                  families == FamiliesOf(topics_data[i].keywords)
                  n == Len(entry_i.insights)
              IN  /\ entry_i.topic = topics_data[i].topic
                  /\ n \in {1, 2}
                  /\ families = {} => entry_i.insights[1].category = "General"
                  /\ families # {} =>
                        /\ n = Min(2, Cardinality(families))
                        /\ \A j \in 1 .. n :
                              \E f \in families : entry_i.insights[j].category = f.title
                  /\ \A j, k \in 1 .. n :
                        j # k => entry_i.insights[j].category # entry_i.insights[k].category
                  /\ \A j \in 1 .. n :
                        entry_i.insights[j].priority =
                            ClaimedPriority(topics_data[i].emotion_distribution)

\* a returned batch of two topics: one matching three families, at 50%
\* negative, and one matching none, without documents
C29_Witness ==
    /\ bpc = "returned"
    /\ Len(topics_data) = 2
    /\ Cardinality(FamiliesOf(topics_data[1].keywords)) = 3
    /\ topics_data[1].emotion_distribution["disappointment"] = 2
    /\ all_insights[1].insights = <<Ins("Teaching", "medium"), Ins("Assessment", "medium")>>
    /\ FamiliesOf(topics_data[2].keywords) = {}
    /\ TotalOf(topics_data[2].emotion_distribution) = 0
    /\ all_insights[2].insights = <<Ins("General", "medium")>>

(***************************************************************************)
(* Properties of the generator singleton                                   *)
(***************************************************************************)
LoadRaised(call) == call.load \in {"tokenizer raises", "model raises", "to cuda raises"}

\* C30 (as claimed): the calls that returned all returned the same object;
\* at most one load returned; a call whose load raised returned nothing,
\* left the module's cache empty if it was, and the call after it attempted
\* the load again
C30_OneInstanceOneLoadRetryAfterFailure ==
    /\ \A i, j \in 1 .. Len(calls) :
          (calls[i].result # 0 /\ calls[j].result # 0) => calls[i].result = calls[j].result
    /\ Cardinality({i \in 1 .. Len(calls) : calls[i].load = "returns"}) <= 1
    /\ \A i \in 1 .. Len(calls) :
          LoadRaised(calls[i]) =>
            /\ calls[i].result = 0
            /\ i < Len(calls) => calls[i + 1].load # "no load"
    /\ (calls # <<>> /\ \A i \in 1 .. Len(calls) : LoadRaised(calls[i])) =>
          _insight_generator = 0

(***************************************************************************)
(* Properties of generate_topic_name                                       *)
(***************************************************************************)
\* how many of the first 10 keywords contain a pattern of the i-th category
CategoryCount(i, keywords) ==
    Cardinality({j \in 1..Len(keywords) :
        j <= 10 /\ \E p \in topic_patterns[i].patterns : p \in PatternsIn(keywords[j])})

Categories == 1..Len(topic_patterns)

\* the categories whose count is the greatest one, when that is not 0
TopCategories(keywords) ==
    {i \in Categories :
        /\ CategoryCount(i, keywords) > 0
        /\ \A j \in Categories : CategoryCount(j, keywords) <= CategoryCount(i, keywords)}

\* C20: the name is the category with the greatest non-zero count over the
\* first 10 terms, the earliest of the table among equals; when every count
\* is 0 it is the first two terms (the one term of a one-term list),
\* title-cased and joined by "&"
C20_TopicNameIsBestCategory ==
    (prog = "generate_topic_name" /\ ipc = "done") =>
        IF TopCategories(t_keywords) # {}
        THEN \E i \in TopCategories(t_keywords) :
                /\ t_name = topic_patterns[i].category
                /\ \A j \in TopCategories(t_keywords) : i <= j
        ELSE /\ Len(t_keywords) >= 2 =>
                    t_name = <<Title(t_keywords[1]), "&", Title(t_keywords[2])>>
             /\ Len(t_keywords) = 1 => t_name = <<Title(t_keywords[1])>>

\* a list named while two categories tie at the greatest count
C20_Witness ==
    /\ prog = "generate_topic_name"
    /\ ipc = "done"
    /\ Cardinality(TopCategories(t_keywords)) >= 2

====
